---- MODULE Spec2Model ----
(***************************************************************************)
(* Model of the reconciliation engine of the bacan pipeline                *)
(* (src/stage3_match_validate_excel.py): the unit calculators, the greedy  *)
(* matcher match_invoice_to_ead, the line validator validate_lines, the    *)
(* shipment validator validate_shipment with the extractors it calls, the  *)
(* joining of the issue lists in main, and status_from_issues and the bulk  *)
(* run of src/app.py.                                                      *)
(*                                                                         *)
(* Number representation.  Python floats are modelled as exact decimal     *)
(* fixed-point numbers counted in thousandths: 0.75 is 750, 45.0 is 45000, *)
(* 12.5 is 12500, a score of 80 points is 80000.  Python ints (cases,      *)
(* bottles_per_case, bottles_total, progressivo) are plain integers.       *)
(* Binary rounding of floats is not modelled; the input sets below hold    *)
(* values on which every division of the code is exact in thousandths.     *)
(*                                                                         *)
(* Optional values.  Python None is the empty tuple, a present value v is  *)
(* the one-element tuple <<v>>.                                            *)
(*                                                                         *)
(* Strings.  A commodity code is a sequence of characters, so that         *)
(* str.strip() is computed; descriptions are atomic strings.               *)
(***************************************************************************)
EXTENDS Integers, Sequences, FiniteSets, TLC

VARIABLES
    inv_lines,   \* match_invoice_to_ead / validate_lines: the invoice lines
    ead_lines,   \* the EAD lines
    pc,          \* position of the run
    i,           \* outer loop of match_invoice_to_ead: index of `inv`
    j,           \* inner loop of match_invoice_to_ead: index of `ead`
    best,        \* local `best` (None or an EAD line)
    best_score,  \* local `best_score`
    score,       \* local `score` of the last candidate scored (None before)
    used,        \* local `used`: set of progressivo values
    matches,     \* local / returned `matches`: sequence of (inv, ead, score)
    issues,      \* validate_lines: local / returned `issues`
    k,           \* validate_lines: index of the pair being validated
    arg,         \* argument of a calculator call
    ret,         \* value returned by a calculator call
    inv_ai,      \* header of the extracted invoice (invoice_number, invoice_date, arc)
    ead_ai,      \* header of the extracted EAD (invoice_number, invoice_date, arc)
    invoice_text,    \* raw invoice text, as what the patterns capture from it
    ead_text,        \* raw EAD text, as what the pattern captures from it
    shipment_issues, \* main: the list returned by validate_shipment
    run_issues,      \* main: `issues = shipment_issues + line_issues`
    run,             \* number of the run on these inputs (1 or 2)
    first,           \* matches and issues of the first run (None during it)
    invoices,    \* app: the uploaded invoice files
    eads,        \* app: the uploaded EAD files
    results,     \* app: st.session_state.results
    job_i        \* app: `i` of `for i in range(n)`

\* the documents of a run and what main keeps of it
doc_vars == <<inv_ai, ead_ai, invoice_text, ead_text, shipment_issues,
              run_issues, run, first>>

\* the uploads and the results of the app
app_vars == <<invoices, eads, results, job_i>>

vars == <<inv_lines, ead_lines, pc, i, j, best, best_score, score, used,
          matches, issues, k, arg, ret, inv_ai, ead_ai, invoice_text, ead_text,
          shipment_issues, run_issues, run, first, invoices, eads, results, job_i>>

\* the app's state while the engine is run on its own
NoUploads ==
    /\ invoices = <<>>
    /\ eads = <<>>
    /\ results = <<>>
    /\ job_i = 0

-----------------------------------------------------------------------------
(* Optional values *)

None == <<>>

Some(v) == <<v>>

Val(x) == x[1]

Abs(x) == IF x < 0 THEN -x ELSE x

Max(a, b) == IF a >= b THEN a ELSE b

\* dict.get(key): None when the key is not in the dict
get(rec, key) == IF key \in DOMAIN rec THEN rec[key] ELSE None

-----------------------------------------------------------------------------
(* Strings as character sequences: str.strip() *)

IsSpace(c) == c = " "

RECURSIVE lstrip(_)
lstrip(s) == IF s # <<>> /\ IsSpace(Head(s)) THEN lstrip(Tail(s)) ELSE s

RECURSIVE rstrip(_)
rstrip(s) ==
    IF s # <<>> /\ IsSpace(s[Len(s)]) THEN rstrip(SubSeq(s, 1, Len(s) - 1)) ELSE s

strip(s) == rstrip(lstrip(s))

\* truthiness of an Optional[str]: None and "" are falsy
Truthy(x) == x # None /\ Val(x) # <<>>

-----------------------------------------------------------------------------
(* Calculators *)

\* normalize_bottle_liters(val): val is None or a float (in thousandths)
normalize_bottle_liters(val) ==
    IF val = None THEN None
    ELSE LET v == Val(val) IN
         IF v > 10000 THEN Some(v \div 1000)
         ELSE IF (1000 < v /\ v <= 100000 /\ v % 1000 = 0) /\ v \in {75000, 70000, 50000}
              THEN Some(v \div 100)
              ELSE Some(v)

\* A cases value that is a text int() and float() reject, such as "ten".  A
\* field of the model cannot hold texts next to numbers, so the text is held
\* as this reserved number, which no line carries as a count.
NotANumber == -1

\* int(x) and float(x) raise ValueError
Unparseable(x) == x # None /\ Val(x) = NotANumber

\* liters_from_invoice(inv_line): a float(cases) that raises is caught and
\* the fallback is tried
liters_from_invoice(inv_line) ==
    LET cases == get(inv_line, "cases")
        bpc   == get(inv_line, "bottles_per_case")
        bl    == normalize_bottle_liters(get(inv_line, "bottle_liters"))
        bt    == get(inv_line, "bottles_total")
    IN  IF cases # None /\ bpc # None /\ bl # None /\ ~Unparseable(cases)
        THEN Some(Val(cases) * Val(bpc) * Val(bl))
        ELSE IF bt # None /\ bl # None /\ Val(bt) <= 5000
             THEN Some(Val(bt) * Val(bl))
             ELSE None

-----------------------------------------------------------------------------
(* Description similarity *)

\* str.strip() on the description texts of the model ("", " ", "VINO",
\* "VINO ROSSO", "VINO ROSSO DOC", "GRAPPA"): apart from " " none has leading
\* or trailing white space
strip_text(s) == IF s = " " THEN "" ELSE s

\* rapidfuzz.fuzz.token_set_ratio on the texts of the model, in thousandths
\* (100.0 when one token set contains the other; otherwise the best
\* normalized Indel similarity of the sorted token strings):
\*   VINO ROSSO / VINO ROSSO DOC 100.0    VINO / VINO ROSSO (DOC) 100.0
\*   GRAPPA / VINO ROSSO 12.5    GRAPPA / VINO ROSSO DOC 10.0    GRAPPA / VINO 0.0
fuzz_token_set_ratio(a, b) ==
    IF a = b THEN 100000
    ELSE IF {a, b} = {"GRAPPA", "VINO ROSSO"} THEN 12500
    ELSE IF {a, b} = {"GRAPPA", "VINO ROSSO DOC"} THEN 10000
    ELSE IF {a, b} = {"GRAPPA", "VINO"} THEN 0
    ELSE 100000

\* token_set_ratio(a, b)
token_set_ratio(a, b) ==
    LET sa == strip_text(a)
        sb == strip_text(b)
    IN  IF sa = "" \/ sb = "" THEN 0 ELSE fuzz_token_set_ratio(sa, sb)

-----------------------------------------------------------------------------
(* match_invoice_to_ead: the body of the inner loop *)

\* faulty variant: a used EAD line is not skipped
is_used_never(ead, used_set) == FALSE

\* `ead["progressivo"] in used`
is_used(ead, used_set) == ead.progressivo \in used_set

\* faulty variant: the codes are compared untrimmed and only when of equal length
cn_filtered_untrimmed(inv, ead) ==
    /\ Truthy(get(inv, "cn_code"))
    /\ Truthy(get(ead, "cn_code"))
    /\ Len(Val(inv.cn_code)) = Len(Val(ead.cn_code))
    /\ Val(inv.cn_code) # Val(ead.cn_code)

\* faulty variant: the filter lets a pair through when the invoice code is
\* the longer text, whatever the codes are
cn_filtered_shorter_only(inv, ead) ==
    /\ Truthy(get(inv, "cn_code"))
    /\ Truthy(get(ead, "cn_code"))
    /\ Len(Val(inv.cn_code)) <= Len(Val(ead.cn_code))
    /\ strip(Val(inv.cn_code)) # strip(Val(ead.cn_code))

\* the hard filter: both codes present and their trimmed texts differ
cn_filtered(inv, ead) ==
    /\ Truthy(get(inv, "cn_code"))
    /\ Truthy(get(ead, "cn_code"))
    /\ strip(Val(inv.cn_code)) # strip(Val(ead.cn_code))

\* faulty variant: a liters difference above 2.0 is not penalized
liters_part_no_penalty(inv, ead) ==
    LET inv_liters == liters_from_invoice(inv) IN
    IF inv_liters # None /\ get(ead, "ead_liters") # None
    THEN LET diff == Abs(Val(inv_liters) - Val(ead.ead_liters)) IN
         IF diff <= 500 THEN 80000 ELSE IF diff <= 2000 THEN 50000 ELSE 0
    ELSE 0

\* "Liters strongest": +80 / +50 / -50
liters_part(inv, ead) ==
    LET inv_liters == liters_from_invoice(inv) IN
    IF inv_liters # None /\ get(ead, "ead_liters") # None
    THEN LET diff == Abs(Val(inv_liters) - Val(ead.ead_liters)) IN
         IF diff <= 500 THEN 80000 ELSE IF diff <= 2000 THEN 50000 ELSE -50000
    ELSE 0

\* faulty variant: the comparison of the case counts is inverted
cases_part_inverted(inv, ead) ==
    IF get(inv, "cases") # None /\ get(ead, "cases") # None
    THEN IF Val(inv.cases) # Val(ead.cases) THEN 40000 ELSE -30000
    ELSE 0

\* "Cases": +40 / -30, nothing when an int() raises
cases_part(inv, ead) ==
    IF /\ get(inv, "cases") # None /\ get(ead, "cases") # None
       /\ ~Unparseable(inv.cases) /\ ~Unparseable(ead.cases)
    THEN IF Val(inv.cases) = Val(ead.cases) THEN 40000 ELSE -30000
    ELSE 0

\* "ABV soft": +25 / +10 / -25
abv_part(inv, ead) ==
    IF get(inv, "abv_percent") # None /\ get(ead, "abv_percent") # None
    THEN LET diff_abv == Abs(Val(inv.abv_percent) - Val(ead.abv_percent)) IN
         IF diff_abv <= 300 THEN 25000
         ELSE IF diff_abv <= 700 THEN 10000 ELSE -25000
    ELSE 0

\* "Description tie-breaker": token_set_ratio / 2.0
name_part(inv, ead) ==
    LET inv_name == strip_text(inv.description)
        ead_name == strip_text(ead.designation)
    IN  IF inv_name # "" /\ ead_name # ""
        THEN token_set_ratio(inv_name, ead_name) \div 2
        ELSE 0

\* the score of one candidate pair
pair_score(inv, ead) ==
    liters_part(inv, ead) + cases_part(inv, ead) + abv_part(inv, ead)
        + name_part(inv, ead)

\* `score > best_score`
beats(s, bs) == s > bs

\* the initial value of best_score (-1)
InitialBestScore == -1000

-----------------------------------------------------------------------------
(* Inputs of a reconciliation run *)

MaxInvLines == 2

MaxEadLines == 2

CN2204 == <<"2", "2", "0", "4">>

CN2204Padded == <<" ", "2", "2", "0", "4", " ">>

CN2205 == <<"2", "2", "0", "5">>

\* an invoice line as normalize_invoice_rows builds it (the keys the matcher
\* and the validators read)
InvLine(desc, cn, abv, cases, bpc, bl, bt, lot) ==
    [description |-> desc, cn_code |-> cn, abv_percent |-> abv,
     bottle_liters |-> bl, bottles_total |-> bt, cases |-> cases,
     bottles_per_case |-> bpc, lot |-> lot]

\* an EAD line as normalize_ead_rows builds it (it has no "description" key)
EadLine(prog, cn, abv, liters, gross, net, desig, denom, cases) ==
    [progressivo |-> prog, cn_code |-> cn, abv_percent |-> abv,
     ead_liters |-> liters, ead_gross_kg |-> gross, ead_net_kg |-> net,
     designation |-> desig, denominazione_origine |-> denom, cases |-> cases]

\* {cases 10, bottles_per_case 6, bottle_liters 0.75, abv 12.5, cn "2204"}
ScenarioInv ==
    InvLine("", Some(CN2204), Some(12500), Some(10), Some(6), Some(750), None, None)

\* a complete line, 45 liters, code written with surrounding blanks
FullInv ==
    InvLine("VINO ROSSO", Some(CN2204Padded), Some(12500), Some(10), Some(6),
            Some(750), Some(60), Some("L1"))

\* 12 x 6 x 0.75 = 54 liters, 14.0 %, no commodity code
OffInv ==
    InvLine("GRAPPA", None, Some(14000), Some(12), Some(6), Some(750), None, None)

\* no cases: 60 bottles x 0.75 = 45 liters through the fallback
SparseInv ==
    InvLine("VINO", Some(CN2205), None, None, None, Some(750), Some(60), None)

\* the quantities of the complete line under another name
GrappaInv ==
    InvLine("GRAPPA", Some(CN2204), Some(12500), Some(10), Some(6), Some(750),
            Some(60), Some("L4"))

\* the complete line with a cases text that is no number
TextCasesInv ==
    InvLine("VINO ROSSO", Some(CN2204), Some(12500), Some(NotANumber), Some(6),
            Some(750), Some(60), Some("L5"))

InvLineSet == {ScenarioInv, FullInv, OffInv, SparseInv, GrappaInv, TextCasesInv}

\* {ead_liters 45.0, abv 12.5, cn "2204", cases 10}
ScenarioEad ==
    EadLine(1, Some(CN2204), Some(12500), Some(45000), None, None, "", None, Some(10))

FullEad ==
    EadLine(2, Some(CN2204), Some(12500), Some(45000), Some(70000), Some(45500),
            "VINO ROSSO DOC", Some("DOC SICILIA"), Some(10))

\* another commodity code; 46 liters, 13.0 %, gross 10 kg below net 12 kg
OtherCnEad ==
    EadLine(3, Some(CN2205), Some(13000), Some(46000), Some(10000), Some(12000),
            "VINO ROSSO", None, None)

\* a line that repeats progressivo 1 and carries nothing to compare
DupEad ==
    EadLine(1, None, None, None, None, None, "VINO", None, None)

EadLineSet == {ScenarioEad, FullEad, OtherCnEad, DupEad}

\* 2 x 6 x 1.0 = 12 liters
LitreInv ==
    InvLine("VINO ROSSO", Some(CN2204), Some(12500), Some(2), Some(6), Some(1000),
            Some(12), Some("L2"))

\* cartons of twelve: 5 x 12 x 0.75 = 45 liters
DozenInv ==
    InvLine("VINO ROSSO", Some(CN2204), Some(12500), Some(5), Some(12), Some(750),
            Some(60), Some("L3"))

\* 12 liters, complete, gross 10 kg below net 12 kg
GrossBelowNetEad ==
    EadLine(4, Some(CN2204), Some(12500), Some(12000), Some(10000), Some(12000),
            "VINO ROSSO", Some("DOC SICILIA"), Some(2))

SeqsUpTo(S, n) == UNION {[1..m -> S] : m \in 0..n}

-----------------------------------------------------------------------------
(* The documents of a shipment.  A header value (invoice number, invoice    *)
(* date, ARC) is None or a sequence of characters.  A raw text is modelled  *)
(* by what the patterns of the extractors capture from it: for the invoice  *)
(* one Optional capture per pattern, for the EAD the list of the captures   *)
(* of "Numero di colli: ...".  The captures of the two weight patterns are  *)
(* held as the numbers parse_float_locale makes of them.                    *)

RefA == <<"A", "7">>

RefAPadded == <<" ", "A", "7", " ">>

RefB == <<"B", "7">>

Blank == <<" ">>

\* the header fields validate_shipment reads with getattr
Header(number, date, arc) ==
    [invoice_number |-> number, invoice_date |-> date, arc |-> arc]

ConsistentHeader == Header(Some(RefA), Some(RefA), Some(RefA))

\* the captures of extract_invoice_compliance / extract_invoice_totals
InvoiceText(vat, eori, rex, consignee, incoterm, colli, gross, net, pallets) ==
    [supplier_vat |-> vat, supplier_eori |-> eori, supplier_rex |-> rex,
     consignee_eori |-> consignee, incoterm |-> incoterm, colli |-> colli,
     gross_kg |-> gross, net_kg |-> net, pallets |-> pallets]

\* an invoice text with every compliance field, declaring `colli` packages
CompleteInvoiceText(colli) ==
    InvoiceText(Some(<<"0", "1">>), Some(<<"I", "T", "1">>), Some(<<"R", "1">>),
                Some(<<"C", "H", "1">>), Some(<<"E", "X", "W">>), colli,
                Some(70000), Some(45500), Some(2))

\* an invoice text in which no pattern matches
EmptyInvoiceText ==
    InvoiceText(None, None, None, None, None, None, None, None, None)

\* the documents while the matcher and the line validator are run on their own
FixedDocuments ==
    /\ inv_ai = ConsistentHeader
    /\ ead_ai = ConsistentHeader
    /\ invoice_text = CompleteInvoiceText(Some(<<"1", "0">>))
    /\ ead_text = << <<"1", "0">> >>
    /\ shipment_issues = <<>>
    /\ run_issues = <<>>
    /\ run = 1
    /\ first = None

-----------------------------------------------------------------------------
(* match_invoice_to_ead as a state machine: one action per iteration of the  *)
(* inner loop, one per end of an outer iteration, one for the return.       *)

Init ==
    /\ inv_lines \in SeqsUpTo(InvLineSet, MaxInvLines)
    /\ ead_lines \in SeqsUpTo(EadLineSet, MaxEadLines)
    /\ pc = "match"
    /\ i = 1
    /\ j = 1
    /\ best = None
    /\ best_score = InitialBestScore
    /\ score = None
    /\ used = {}
    /\ matches = <<>>
    /\ issues = <<>>
    /\ k = 1
    /\ arg = None
    /\ ret = None
    /\ FixedDocuments
    /\ NoUploads

InInnerLoop == pc = "match" /\ i <= Len(inv_lines) /\ j <= Len(ead_lines)

\* `if ead["progressivo"] in used: continue`
MatchSkipUsed ==
    /\ InInnerLoop
    /\ is_used(ead_lines[j], used)
    /\ j' = j + 1
    /\ score' = None
    /\ UNCHANGED <<inv_lines, ead_lines, pc, i, best, best_score, used, matches,
                   issues, k, arg, ret>>
    /\ UNCHANGED doc_vars
    /\ UNCHANGED app_vars

\* the hard filter's `continue`
MatchSkipCn ==
    /\ InInnerLoop
    /\ ~is_used(ead_lines[j], used)
    /\ cn_filtered(inv_lines[i], ead_lines[j])
    /\ j' = j + 1
    /\ score' = None
    /\ UNCHANGED <<inv_lines, ead_lines, pc, i, best, best_score, used, matches,
                   issues, k, arg, ret>>
    /\ UNCHANGED doc_vars
    /\ UNCHANGED app_vars

\* the candidate is scored and compared with the best so far
MatchScore ==
    /\ InInnerLoop
    /\ ~is_used(ead_lines[j], used)
    /\ ~cn_filtered(inv_lines[i], ead_lines[j])
    /\ LET s == pair_score(inv_lines[i], ead_lines[j]) IN
       /\ score' = Some(s)
       /\ IF beats(s, best_score)
          THEN best_score' = s /\ best' = Some(ead_lines[j])
          ELSE UNCHANGED <<best, best_score>>
    /\ j' = j + 1
    /\ UNCHANGED <<inv_lines, ead_lines, pc, i, used, matches, issues, k, arg, ret>>
    /\ UNCHANGED doc_vars
    /\ UNCHANGED app_vars

\* faulty variant: marking a line used forgets the lines marked before
MatchRecordForgetting ==
    /\ pc = "match" /\ i <= Len(inv_lines) /\ j > Len(ead_lines)
    /\ used' = IF best # None THEN {Val(best).progressivo} ELSE used
    /\ matches' = Append(matches, [inv |-> inv_lines[i], ead |-> best, score |-> best_score])
    /\ i' = i + 1
    /\ j' = 1
    /\ best' = None
    /\ best_score' = InitialBestScore
    /\ score' = None
    /\ UNCHANGED <<inv_lines, ead_lines, pc, issues, k, arg, ret>>
    /\ UNCHANGED doc_vars
    /\ UNCHANGED app_vars

\* end of the inner loop: `if best: used.add(...)`, `matches.append(...)`;
\* the next outer iteration starts with best = None, best_score = -1
MatchRecord ==
    /\ pc = "match" /\ i <= Len(inv_lines) /\ j > Len(ead_lines)
    /\ used' = IF best # None THEN used \cup {Val(best).progressivo} ELSE used
    /\ matches' = Append(matches, [inv |-> inv_lines[i], ead |-> best, score |-> best_score])
    /\ i' = i + 1
    /\ j' = 1
    /\ best' = None
    /\ best_score' = InitialBestScore
    /\ score' = None
    /\ UNCHANGED <<inv_lines, ead_lines, pc, issues, k, arg, ret>>
    /\ UNCHANGED doc_vars
    /\ UNCHANGED app_vars

\* `return matches`, and the entry of validate_lines: `issues = []`, the
\* loop over the pairs starts
MatchReturn ==
    /\ pc = "match" /\ i > Len(inv_lines)
    /\ pc' = "validate"
    /\ issues' = <<>>
    /\ k' = 1
    /\ UNCHANGED <<inv_lines, ead_lines, i, j, best, best_score, score, used,
                   matches, arg, ret>>
    /\ UNCHANGED doc_vars
    /\ UNCHANGED app_vars

-----------------------------------------------------------------------------
(* validate_lines: one action per iteration of `for inv, ead, score in matches` *)

\* keyword defaults of validate_lines (floats in thousandths)
liters_tol == 0

abv_tol_warn == 0

abv_tol_fail == 0

name_warn_threshold == 100000

\* add(check_class, issue_type, severity, **kwargs): the dict appended
Issue(check_class, issue_type, severity, kwargs) ==
    [check_class |-> check_class, type |-> issue_type, severity |-> severity,
     ctx |-> kwargs]

\* a conditional `add(...)`
When(cond, issue) == IF cond THEN <<issue>> ELSE <<>>

\* `v is None or (isinstance(v, str) and not v.strip())` for an Optional[str]
MissingText(x) == x = None \/ strip(Val(x)) = <<>>

\* faulty variant: the severity of the finding is WARN
no_match_issue_warn(m) ==
    Issue("PRODUCT_IDENTITY_CHECK", "NO_MATCH", "WARN",
          [invoice_desc |-> strip_text(m.inv.description), match_score |-> m.score])

\* the issue added when `ead is None`
no_match_issue(m) ==
    Issue("PRODUCT_IDENTITY_CHECK", "NO_MATCH", "FAIL",
          [invoice_desc |-> strip_text(m.inv.description), match_score |-> m.score])

\* "Completeness: invoice per-row mandatory"
missing_invoice_fields(inv, inv_desc) ==
    LET miss(f, sev) ==
            Issue("COMPLETENESS_CHECK", "MISSING_INVOICE_FIELD", sev,
                  [invoice_desc |-> inv_desc, missing_field |-> f])
    IN  When(strip_text(inv.description) = "", miss("description", "WARN"))
        \o When(MissingText(inv.cn_code), miss("cn_code", "FAIL"))
        \o When(inv.abv_percent = None, miss("abv_percent", "WARN"))
        \o When(inv.cases = None, miss("cases", "FAIL"))
        \o When(inv.bottles_per_case = None, miss("bottles_per_case", "FAIL"))
        \o When(inv.bottle_liters = None, miss("bottle_liters", "FAIL"))

\* faulty variant: the codes are compared as written, blanks included
cn_mismatch_untrimmed(inv, ead) ==
    /\ Truthy(get(inv, "cn_code"))
    /\ Truthy(get(ead, "cn_code"))
    /\ Val(inv.cn_code) # Val(ead.cn_code)

\* "CN mismatch": `inv_cn and ead_cn and str(inv_cn).strip() != str(ead_cn).strip()`
cn_mismatch(inv, ead) ==
    /\ Truthy(get(inv, "cn_code"))
    /\ Truthy(get(ead, "cn_code"))
    /\ strip(Val(inv.cn_code)) # strip(Val(ead.cn_code))

\* "ABV mismatch"
abv_issues(inv, ead, inv_desc) ==
    LET inv_abv == get(inv, "abv_percent")
        ead_abv == get(ead, "abv_percent")
    IN  IF inv_abv # None /\ ead_abv # None
        THEN LET diff_abv == Abs(Val(inv_abv) - Val(ead_abv))
                 found(sev) ==
                     Issue("PRODUCT_IDENTITY_CHECK", "ABV_MISMATCH", sev,
                           [invoice_desc |-> inv_desc, invoice_abv |-> Val(inv_abv),
                            ead_abv |-> Val(ead_abv), diff |-> diff_abv])
             IN  IF diff_abv > abv_tol_fail THEN <<found("FAIL")>>
                 ELSE IF diff_abv > abv_tol_warn THEN <<found("WARN")>>
                 ELSE <<>>
        ELSE <<>>

\* faulty variant: a difference of up to 2.0 liters is let through
liters_issues_within_two(inv, ead, inv_desc) ==
    LET inv_liters == liters_from_invoice(inv)
        ead_liters == get(ead, "ead_liters")
    IN  When(/\ inv_liters # None
             /\ ead_liters # None
             /\ Abs(Val(inv_liters) - Val(ead_liters)) > 2000,
             Issue("QUANTITY_INTEGRITY_CHECK", "LITERS_MISMATCH", "FAIL",
                   [invoice_desc |-> inv_desc, invoice_calc_liters |-> inv_liters,
                    ead_liters |-> ead_liters]))

\* "Liters invariant"
liters_issues(inv, ead, inv_desc) ==
    LET inv_liters == liters_from_invoice(inv)
        ead_liters == get(ead, "ead_liters")
    IN  When(/\ inv_liters # None
             /\ ead_liters # None
             /\ Abs(Val(inv_liters) - Val(ead_liters)) > liters_tol,
             Issue("QUANTITY_INTEGRITY_CHECK", "LITERS_MISMATCH", "FAIL",
                   [invoice_desc |-> inv_desc, invoice_calc_liters |-> inv_liters,
                    ead_liters |-> ead_liters]))

\* "Cases mismatch": CASES_PARSE_ERROR when an int() raises
cases_issues(inv, ead, inv_desc) ==
    LET inv_cases == get(inv, "cases")
        ead_cases == get(ead, "cases")
        kwargs == [invoice_desc |-> inv_desc, invoice_cases |-> inv_cases,
                   ead_cases |-> ead_cases]
    IN  IF inv_cases # None /\ ead_cases # None
        THEN IF Unparseable(inv_cases) \/ Unparseable(ead_cases)
             THEN <<Issue("QUANTITY_INTEGRITY_CHECK", "CASES_PARSE_ERROR", "WARN",
                          kwargs)>>
             ELSE When(Val(inv_cases) # Val(ead_cases),
                       Issue("QUANTITY_INTEGRITY_CHECK", "CASES_MISMATCH", "FAIL",
                             kwargs))
        ELSE <<>>

\* faulty variant: gross <= net is a FAIL
weight_issues_fail(ead, inv_desc) ==
    LET gross == get(ead, "ead_gross_kg")
        net == get(ead, "ead_net_kg")
    IN  When(gross # None /\ net # None /\ Val(gross) <= Val(net),
             Issue("QUANTITY_INTEGRITY_CHECK", "WEIGHT_GROSS_LE_NET", "FAIL",
                   [invoice_desc |-> inv_desc, ead_gross_kg |-> gross,
                    ead_net_kg |-> net]))

\* "Weight sanity": gross <= net, and |net - liters| > max(2.0, 0.02 * liters)
\* (both sides of the second comparison multiplied by 50)
weight_issues(ead, inv_desc) ==
    LET gross == get(ead, "ead_gross_kg")
        net == get(ead, "ead_net_kg")
        ead_liters == get(ead, "ead_liters")
    IN  When(gross # None /\ net # None /\ Val(gross) <= Val(net),
             Issue("QUANTITY_INTEGRITY_CHECK", "WEIGHT_GROSS_LE_NET", "WARN",
                   [invoice_desc |-> inv_desc, ead_gross_kg |-> gross,
                    ead_net_kg |-> net]))
        \o When(/\ net # None
                /\ ead_liters # None
                /\ 50 * Abs(Val(net) - Val(ead_liters)) > Max(100000, Val(ead_liters)),
                Issue("QUANTITY_INTEGRITY_CHECK", "NETKG_LITERS_SUSPICIOUS", "WARN",
                      [invoice_desc |-> inv_desc, ead_net_kg |-> net,
                       ead_liters |-> ead_liters]))

\* "Name similarity": the EAD text is read from the key "description"
name_issues(inv, ead, inv_desc) ==
    LET inv_name == strip_text(inv.description)
        ead_name == IF "description" \in DOMAIN ead
                    THEN strip_text(ead.description) ELSE ""
    IN  When(/\ inv_name # ""
             /\ ead_name # ""
             /\ token_set_ratio(inv_name, ead_name) < name_warn_threshold,
             Issue("PRODUCT_IDENTITY_CHECK", "LOW_NAME_SIMILARITY", "WARN",
                   [invoice_desc |-> inv_desc,
                    similarity |-> token_set_ratio(inv_name, ead_name),
                    invoice_name |-> inv_name, ead_name |-> ead_name]))

\* the checks of a pair whose EAD side is present, in the order of the code
present_pair_issues(inv, ead) ==
    LET inv_desc == strip_text(inv.description) IN
    missing_invoice_fields(inv, inv_desc)
    \o When(get(ead, "ead_liters") = None,
            Issue("COMPLETENESS_CHECK", "MISSING_EAD_LITERS", "FAIL",
                  [invoice_desc |-> inv_desc, ead_progressivo |-> ead.progressivo]))
    \o When(cn_mismatch(inv, ead),
            Issue("PRODUCT_IDENTITY_CHECK", "CN_CODE_MISMATCH", "FAIL",
                  [invoice_desc |-> inv_desc, invoice_cn_code |-> inv.cn_code,
                   ead_cn_code |-> ead.cn_code]))
    \o abv_issues(inv, ead, inv_desc)
    \o When(inv.bottle_liters # None
                /\ (Val(inv.bottle_liters) < 50 \/ Val(inv.bottle_liters) > 5000),
            Issue("PRODUCT_IDENTITY_CHECK", "BOTTLE_SIZE_SUSPICIOUS", "WARN",
                  [invoice_desc |-> inv_desc, bottle_liters |-> inv.bottle_liters]))
    \o liters_issues(inv, ead, inv_desc)
    \o cases_issues(inv, ead, inv_desc)
    \o weight_issues(ead, inv_desc)
    \o name_issues(inv, ead, inv_desc)
    \o When(inv.lot = None,
            Issue("PRODUCT_IDENTITY_CHECK", "MISSING_LOT", "WARN",
                  [invoice_desc |-> inv_desc]))
    \o When(get(ead, "denominazione_origine") = None,
            Issue("COMPLETENESS_CHECK", "MISSING_DENOMINAZIONE_ORIGINE", "WARN",
                  [invoice_desc |-> inv_desc, ead_progressivo |-> ead.progressivo]))

InValidateLoop == pc = "validate" /\ k <= Len(matches)

\* `if ead is None: add(... "NO_MATCH" ...); continue`
ValidateNoMatch ==
    /\ InValidateLoop
    /\ matches[k].ead = None
    /\ issues' = Append(issues, no_match_issue(matches[k]))
    /\ k' = k + 1
    /\ UNCHANGED <<inv_lines, ead_lines, pc, i, j, best, best_score, score, used,
                   matches, arg, ret>>
    /\ UNCHANGED doc_vars
    /\ UNCHANGED app_vars

\* faulty variant: the pair's score is cleared once the pair is validated
ValidatePairClearingScore ==
    /\ InValidateLoop
    /\ matches[k].ead # None
    /\ issues' = issues \o present_pair_issues(matches[k].inv, Val(matches[k].ead))
    /\ matches' = [matches EXCEPT ![k].score = 0]
    /\ k' = k + 1
    /\ UNCHANGED <<inv_lines, ead_lines, pc, i, j, best, best_score, score, used,
                   arg, ret>>
    /\ UNCHANGED doc_vars
    /\ UNCHANGED app_vars

\* the rest of the loop body
ValidatePair ==
    /\ InValidateLoop
    /\ matches[k].ead # None
    /\ issues' = issues \o present_pair_issues(matches[k].inv, Val(matches[k].ead))
    /\ k' = k + 1
    /\ UNCHANGED <<inv_lines, ead_lines, pc, i, j, best, best_score, score, used,
                   matches, arg, ret>>
    /\ UNCHANGED doc_vars
    /\ UNCHANGED app_vars

\* `return issues`
ValidateReturn ==
    /\ pc = "validate" /\ k > Len(matches)
    /\ pc' = "done"
    /\ UNCHANGED <<inv_lines, ead_lines, i, j, best, best_score, score, used,
                   matches, issues, k, arg, ret>>
    /\ UNCHANGED doc_vars
    /\ UNCHANGED app_vars

Next ==
    \/ MatchSkipUsed
    \/ MatchSkipCn
    \/ MatchScore
    \/ MatchRecord
    \/ MatchReturn
    \/ ValidateNoMatch
    \/ ValidatePair
    \/ ValidateReturn

Spec == Init /\ [][Next]_vars

-----------------------------------------------------------------------------
(* Extraction from the raw texts *)

DigitChars == <<"0", "1", "2", "3", "4", "5", "6", "7", "8", "9">>

IsDigit(c) == \E n \in DOMAIN DigitChars : DigitChars[n] = c

DigitValue(c) == (CHOOSE n \in DOMAIN DigitChars : DigitChars[n] = c) - 1

\* int(s) for a string of digits
RECURSIVE int_of_digits(_)
int_of_digits(s) ==
    IF s = <<>> THEN 0
    ELSE 10 * int_of_digits(SubSeq(s, 1, Len(s) - 1)) + DigitValue(s[Len(s)])

\* parse_int_loose(x): every character that is not a digit is dropped
parse_int_loose(x) ==
    IF x = None THEN None
    ELSE LET s == SelectSeq(strip(Val(x)), IsDigit)
         IN  IF s = <<>> THEN None ELSE Some(int_of_digits(s))

\* extract_invoice_compliance(invoice_text): supplier_cod_fisc is never set
extract_invoice_compliance(t) ==
    [supplier_vat |-> t.supplier_vat, supplier_cod_fisc |-> None,
     supplier_eori |-> t.supplier_eori, supplier_rex |-> t.supplier_rex,
     consignee_eori |-> t.consignee_eori, incoterm |-> t.incoterm,
     total_colli |-> parse_int_loose(t.colli), gross_kg |-> t.gross_kg,
     net_kg |-> t.net_kg, pallet_count |-> t.pallets]

\* extract_invoice_totals(invoice_text): the same pattern for "N.ro Colli"
extract_invoice_totals(t) ==
    [invoice_total_colli |-> parse_int_loose(t.colli),
     invoice_gross_kg |-> t.gross_kg, invoice_net_kg |-> t.net_kg]

\* the entries of a list that are not None
present(list) == SelectSeq(list, LAMBDA x : x # None)

\* sum() of a list of present values
RECURSIVE sum(_)
sum(list) == IF list = <<>> THEN 0 ELSE Val(Head(list)) + sum(Tail(list))

\* `sum(vals) if vals else None`
sum_or_none(vals) == IF vals = <<>> THEN None ELSE Some(sum(vals))

\* extract_ead_packaging_colli_sum(ead_text)
extract_ead_packaging_colli_sum(t) ==
    IF t = <<>> THEN None
    ELSE sum_or_none(present([n \in DOMAIN t |-> parse_int_loose(Some(t[n]))]))


-----------------------------------------------------------------------------
(* validate_shipment, one operator per group of checks.  (Line 617 of the   *)
(* source is indented by five blanks; it is read at the indentation of the  *)
(* function body, as the lines after it are.)                               *)

\* an `add(...)` without keyword arguments
NoKwargs == <<>>

\* truthiness of an Optional number: None and 0 are falsy
TruthyNumber(x) == x # None /\ Val(x) # 0

\* "Compliance completeness checks (Invoice)" and the pallet count
compliance_issues(inv_comp) ==
    LET missing(issue_type, sev) ==
            Issue("COMPLETENESS_CHECK", issue_type, sev, NoKwargs)
    IN  When(~Truthy(inv_comp.supplier_vat), missing("MISSING_SUPPLIER_VAT", "FAIL"))
        \o When(~Truthy(inv_comp.supplier_eori), missing("MISSING_SUPPLIER_EORI", "FAIL"))
        \o When(~Truthy(inv_comp.supplier_rex), missing("MISSING_SUPPLIER_REX", "FAIL"))
        \o When(~Truthy(inv_comp.consignee_eori),
                missing("MISSING_CONSIGNEE_EORI", "FAIL"))
        \o When(~Truthy(inv_comp.incoterm), missing("MISSING_INCOTERM", "FAIL"))
        \o When(~TruthyNumber(inv_comp.total_colli),
                missing("MISSING_TOTAL_COLLI", "FAIL"))
        \o When(~TruthyNumber(inv_comp.gross_kg), missing("MISSING_GROSS_KG", "FAIL"))
        \o When(~TruthyNumber(inv_comp.net_kg), missing("MISSING_NET_KG", "FAIL"))
        \o When(~TruthyNumber(inv_comp.pallet_count),
                missing("MISSING_PALLET_COUNT", "WARN"))

\* "Completeness (headers)"
header_missing_issues(inv_hdr, ead_hdr) ==
    LET missing(issue_type) ==
            Issue("COMPLETENESS_CHECK", issue_type, "FAIL", NoKwargs)
    IN  When(~Truthy(inv_hdr.invoice_number), missing("MISSING_INVOICE_NUMBER"))
        \o When(~Truthy(ead_hdr.invoice_number), missing("MISSING_EAD_INVOICE_NUMBER"))
        \o When(~Truthy(inv_hdr.arc), missing("MISSING_ARC_IN_INVOICE"))
        \o When(~Truthy(ead_hdr.arc), missing("MISSING_ARC_IN_EAD"))

\* faulty variant: a value missing on one side differs from the other side
header_differs_or_missing(a, b) ==
    \/ Truthy(a) # Truthy(b)
    \/ Truthy(a) /\ Truthy(b) /\ strip(Val(a)) # strip(Val(b))

\* `a and b and str(a).strip() != str(b).strip()`
header_differs(a, b) == Truthy(a) /\ Truthy(b) /\ strip(Val(a)) # strip(Val(b))

\* "Document consistency"
document_consistency_issues(inv_hdr, ead_hdr) ==
    When(header_differs(inv_hdr.arc, ead_hdr.arc),
         Issue("DOCUMENT_CONSISTENCY_CHECK", "ARC_MISMATCH", "FAIL",
               [invoice_arc |-> inv_hdr.arc, ead_arc |-> ead_hdr.arc]))
    \o When(header_differs(inv_hdr.invoice_number, ead_hdr.invoice_number),
            Issue("DOCUMENT_CONSISTENCY_CHECK", "INVOICE_NUMBER_MISMATCH", "FAIL",
                  [invoice_number |-> inv_hdr.invoice_number,
                   ead_invoice_number |-> ead_hdr.invoice_number]))
    \o When(header_differs(inv_hdr.invoice_date, ead_hdr.invoice_date),
            Issue("DOCUMENT_CONSISTENCY_CHECK", "INVOICE_DATE_MISMATCH", "WARN",
                  [invoice_date |-> inv_hdr.invoice_date,
                   ead_invoice_date |-> ead_hdr.invoice_date]))

\* "Totals: liters": both totals are taken with liters_from_invoice, the EAD
\* total too; |a - b| > max(1.0, 0.005 * b), both sides multiplied by 200
total_liters_issues(invoice_lines, excise_lines) ==
    LET inv_liters_sum ==
            sum_or_none(present([n \in DOMAIN invoice_lines |->
                                    liters_from_invoice(invoice_lines[n])]))
        ead_liters_sum ==
            sum_or_none(present([n \in DOMAIN excise_lines |->
                                    liters_from_invoice(excise_lines[n])]))
    IN  When(/\ inv_liters_sum # None
             /\ ead_liters_sum # None
             /\ 200 * Abs(Val(inv_liters_sum) - Val(ead_liters_sum))
                    > Max(200000, Val(ead_liters_sum)),
             Issue("QUANTITY_INTEGRITY_CHECK", "TOTAL_LITERS_MISMATCH", "FAIL",
                   [invoice_calc_liters_total |-> inv_liters_sum,
                    ead_liters_total |-> ead_liters_sum]))

\* `int(l.get("cases") or 0)`
cases_or_zero(line) ==
    IF get(line, "cases") = None THEN 0 ELSE Val(line.cases)

\* sum(int(l.get("cases") or 0) for l in lines)
RECURSIVE cases_sum(_)
cases_sum(lines) ==
    IF lines = <<>> THEN 0 ELSE cases_or_zero(Head(lines)) + cases_sum(Tail(lines))

\* "Totals: cases": the EAD sum is an int, so `is not None` always holds
total_cases_issues(invoice_lines, excise_lines) ==
    LET inv_cases_sum == cases_sum(invoice_lines)
        ead_cases_sum == cases_sum(excise_lines)
    IN  When(inv_cases_sum # 0 /\ inv_cases_sum # ead_cases_sum,
             Issue("QUANTITY_INTEGRITY_CHECK", "TOTAL_CASES_MISMATCH", "FAIL",
                   [invoice_sum_cases |-> inv_cases_sum,
                    ead_sum_cases |-> ead_cases_sum]))

\* "Totals: EAD weight sanity"
total_weight_issues(excise_lines) ==
    LET ead_gross_sum ==
            sum_or_none(present([n \in DOMAIN excise_lines |->
                                    get(excise_lines[n], "ead_gross_kg")]))
        ead_net_sum ==
            sum_or_none(present([n \in DOMAIN excise_lines |->
                                    get(excise_lines[n], "ead_net_kg")]))
    IN  When(/\ ead_gross_sum # None
             /\ ead_net_sum # None
             /\ Val(ead_gross_sum) <= Val(ead_net_sum),
             Issue("QUANTITY_INTEGRITY_CHECK", "TOTAL_GROSS_LE_NET", "WARN",
                   [ead_gross_total |-> ead_gross_sum, ead_net_total |-> ead_net_sum]))

\* faulty variant: only an invoice total above the EAD sum is a mismatch
colli_differ_excess(inv_total_colli, ead_colli_sum) ==
    Val(inv_total_colli) > Val(ead_colli_sum)

\* `int(inv_total_colli) != int(ead_colli_sum)`
colli_differ(inv_total_colli, ead_colli_sum) ==
    Val(inv_total_colli) # Val(ead_colli_sum)

\* "invoice total colli vs sum(EAD Numero di colli) from packaging section"
total_colli_issues(inv_total_colli, ead_colli_sum) ==
    When(/\ inv_total_colli # None
         /\ ead_colli_sum # None
         /\ colli_differ(inv_total_colli, ead_colli_sum),
         Issue("QUANTITY_INTEGRITY_CHECK", "TOTAL_COLLI_MISMATCH", "FAIL",
               [invoice_total_colli |-> inv_total_colli,
                ead_packaging_colli_sum |-> ead_colli_sum]))

\* the list `bpcs`: int(bpc) of every invoice line that has one
bottles_per_case_list(invoice_lines) ==
    present([n \in DOMAIN invoice_lines |-> get(invoice_lines[n], "bottles_per_case")])

\* `total_bottles`: int(c) * int(bpc) over the lines that have both
RECURSIVE total_bottles_of(_)
total_bottles_of(invoice_lines) ==
    IF invoice_lines = <<>> THEN 0
    ELSE LET l == Head(invoice_lines)
             c == get(l, "cases")
             bpc == get(l, "bottles_per_case")
         IN  (IF c # None /\ bpc # None /\ ~Unparseable(c)
              THEN Val(c) * Val(bpc) ELSE 0)
             + total_bottles_of(Tail(invoice_lines))

\* Counter(bpcs).most_common(1)[0][0]: the most frequent value, the one
\* met first among equally frequent ones
most_common(bpcs) ==
    LET count(v) == Cardinality({n \in DOMAIN bpcs : bpcs[n] = v})
        pick == CHOOSE n \in DOMAIN bpcs :
                    /\ \A m \in DOMAIN bpcs : count(bpcs[m]) <= count(bpcs[n])
                    /\ \A m \in 1..(n - 1) : count(bpcs[m]) < count(bpcs[n])
    IN  Val(bpcs[pick])

\* "packaging sanity": |total_bottles / colli - mode| > 0.25, both sides
\* multiplied by 4 * colli; bottles_per_carton is kept in thousandths
packaging_issues(invoice_lines, inv_total_colli) ==
    LET bpcs == bottles_per_case_list(invoice_lines)
        total_bottles == total_bottles_of(invoice_lines)
    IN  IF inv_total_colli # None /\ Val(inv_total_colli) > 0 /\ total_bottles > 0
        THEN IF bpcs # <<>>
             THEN When(4 * Abs(total_bottles - most_common(bpcs) * Val(inv_total_colli))
                          > Val(inv_total_colli),
                       Issue("QUANTITY_INTEGRITY_CHECK", "PACKAGING_UNIT_MISMATCH", "FAIL",
                             [total_bottles |-> total_bottles,
                              invoice_total_colli |-> inv_total_colli,
                              bottles_per_carton |->
                                  (1000 * total_bottles) \div Val(inv_total_colli),
                              mode_bottles_per_case |-> most_common(bpcs)]))
             ELSE <<Issue("QUANTITY_INTEGRITY_CHECK", "PACKAGING_UNIT_UNCHECKED", "WARN",
                          [reason |-> "No bottles_per_case extracted from invoice rows"])>>
        ELSE <<>>

\* validate_shipment(inv_ai, ead_ai, inv_lines, ead_lines, invoice_text, ead_text)
validate_shipment(inv_hdr, ead_hdr, invoice_lines, excise_lines, inv_text, excise_text) ==
    LET inv_comp == extract_invoice_compliance(inv_text)
        inv_total_colli == extract_invoice_totals(inv_text).invoice_total_colli
        ead_colli_sum == extract_ead_packaging_colli_sum(excise_text)
    IN  compliance_issues(inv_comp)
        \o header_missing_issues(inv_hdr, ead_hdr)
        \o document_consistency_issues(inv_hdr, ead_hdr)
        \o total_liters_issues(invoice_lines, excise_lines)
        \o total_cases_issues(invoice_lines, excise_lines)
        \o total_weight_issues(excise_lines)
        \o total_colli_issues(inv_total_colli, ead_colli_sum)
        \o packaging_issues(invoice_lines, inv_total_colli)

-----------------------------------------------------------------------------
(* main (and run_one_job of src/app.py): validate_shipment, then            *)
(* match_invoice_to_ead, then validate_lines, then the two issue lists are  *)
(* joined.  A second run on the same inputs follows the first.              *)

\* faulty variant: the line issues come first
aggregate_lines_first(shipment, line) == line \o shipment

\* `issues = shipment_issues + line_issues`
aggregate(shipment, line) == shipment \o line

\* faulty variant: one set shared by all calls
new_used_shared(earlier) == earlier

\* `used = set()`: a new set at every call, whatever an earlier call left
new_used(earlier) == {}

\* the unguarded `int(l.get("cases") or 0)` of "Totals: cases" raises
\* ValueError on a line whose cases int() rejects
shipment_raises(invoice_lines, excise_lines) ==
    \/ \E n \in DOMAIN invoice_lines : Unparseable(get(invoice_lines[n], "cases"))
    \/ \E n \in DOMAIN excise_lines : Unparseable(get(excise_lines[n], "cases"))

\* `shipment_issues = validate_shipment(...)`; an exception raised inside
\* is not caught by main and ends the run
ValidateShipment ==
    /\ pc = "shipment"
    /\ IF shipment_raises(inv_lines, ead_lines)
       THEN /\ pc' = "raised"
            /\ UNCHANGED shipment_issues
       ELSE /\ shipment_issues' = validate_shipment(inv_ai, ead_ai, inv_lines,
                                                    ead_lines, invoice_text, ead_text)
            /\ pc' = "call_match"
    /\ UNCHANGED <<inv_lines, ead_lines, i, j, best, best_score, score, used,
                   matches, issues, k, arg, ret, inv_ai, ead_ai, invoice_text,
                   ead_text, run_issues, run, first>>
    /\ UNCHANGED app_vars

\* entry of match_invoice_to_ead: `used = set()`, `matches = []`, and the
\* first outer iteration starts
CallMatch ==
    /\ pc = "call_match"
    /\ used' = new_used(used)
    /\ matches' = <<>>
    /\ i' = 1
    /\ j' = 1
    /\ best' = None
    /\ best_score' = InitialBestScore
    /\ score' = None
    /\ pc' = "match"
    /\ UNCHANGED <<inv_lines, ead_lines, issues, k, arg, ret>>
    /\ UNCHANGED doc_vars
    /\ UNCHANGED app_vars

\* `issues = shipment_issues + line_issues`
Aggregate ==
    /\ pc = "done"
    /\ run_issues' = aggregate(shipment_issues, issues)
    /\ pc' = "aggregated"
    /\ UNCHANGED <<inv_lines, ead_lines, i, j, best, best_score, score, used,
                   matches, issues, k, arg, ret, inv_ai, ead_ai, invoice_text,
                   ead_text, shipment_issues, run, first>>
    /\ UNCHANGED app_vars

\* the same inputs are run a second time; what the first run returned is
\* kept for comparison, and nothing else is touched
Rerun ==
    /\ pc = "aggregated"
    /\ run = 1
    /\ first' = Some([matches |-> matches, issues |-> run_issues])
    /\ run' = 2
    /\ pc' = "shipment"
    /\ UNCHANGED <<inv_lines, ead_lines, i, j, best, best_score, score, used,
                   matches, issues, k, arg, ret, inv_ai, ead_ai, invoice_text,
                   ead_text, shipment_issues, run_issues>>
    /\ UNCHANGED app_vars

\* the documents of the runs: a two-line shipment declaring 12 packages, a
\* one-line shipment declaring 2, and documents that disagree or lack
\* everything
RunDocs ==
    {[inv_ai |-> ConsistentHeader, ead_ai |-> ConsistentHeader,
      invoice_text |-> CompleteInvoiceText(Some(<<"1", "2">>)),
      ead_text |-> << <<"1", "0">>, <<"2">> >>],
     [inv_ai |-> ConsistentHeader, ead_ai |-> ConsistentHeader,
      invoice_text |-> CompleteInvoiceText(Some(<<"2">>)),
      ead_text |-> << <<"2">> >>],
     [inv_ai |-> Header(Some(RefA), Some(RefA), Some(RefA)),
      ead_ai |-> Header(Some(RefB), Some(RefB), Some(RefB)),
      invoice_text |-> CompleteInvoiceText(Some(<<"5", "0">>)),
      ead_text |-> << <<"4", "8">> >>],
     [inv_ai |-> Header(None, None, None), ead_ai |-> Header(None, None, None),
      invoice_text |-> EmptyInvoiceText, ead_text |-> <<>>]}

RunInvLineSet == {FullInv, LitreInv, OffInv}

RunEadLineSet == {FullEad, GrossBelowNetEad, OtherCnEad}

InitRun ==
    /\ inv_lines \in SeqsUpTo(RunInvLineSet, MaxInvLines)
    /\ ead_lines \in SeqsUpTo(RunEadLineSet, MaxEadLines)
    /\ \E d \in RunDocs :
          /\ inv_ai = d.inv_ai
          /\ ead_ai = d.ead_ai
          /\ invoice_text = d.invoice_text
          /\ ead_text = d.ead_text
    /\ pc = "shipment"
    /\ shipment_issues = <<>>
    /\ run_issues = <<>>
    /\ run = 1
    /\ first = None
    /\ i = 1
    /\ j = 1
    /\ best = None
    /\ best_score = InitialBestScore
    /\ score = None
    /\ used = {}
    /\ matches = <<>>
    /\ issues = <<>>
    /\ k = 1
    /\ arg = None
    /\ ret = None
    /\ NoUploads

NextRun ==
    \/ ValidateShipment
    \/ CallMatch
    \/ MatchSkipUsed
    \/ MatchSkipCn
    \/ MatchScore
    \/ MatchRecord
    \/ MatchReturn
    \/ ValidateNoMatch
    \/ ValidatePair
    \/ ValidateReturn
    \/ Aggregate
    \/ Rerun

SpecRun == InitRun /\ [][NextRun]_vars

-----------------------------------------------------------------------------
(* validate_shipment on its own, over three families of documents: the      *)
(* headers vary, the captured package counts vary, the lines vary.          *)

MaxColliEntries == 2

InvHeaderValues == {None, Some(<<>>), Some(Blank), Some(RefAPadded), Some(RefB)}

EadHeaderValues == {None, Some(RefA), Some(RefB)}

InvColliCaptures ==
    {None, Some(<<"5", "0">>), Some(<<"4", "8">>), Some(<<".">>), Some(<<"0">>),
     Some(<<"1", ".", "0", "0", "0">>)}

EadColliCaptures == {<<"4", "8">>, <<"2">>, <<".">>, <<"5", "0">>}

LineColliCaptures ==
    {None, Some(<<"1", "0">>), Some(<<"1", "5">>), Some(<<"2", "2">>), Some(<<"0">>)}

ShipInvLineSet == {FullInv, OffInv, SparseInv, DozenInv, TextCasesInv}

ShipEadLineSet == {FullEad, OtherCnEad, DupEad}

InitShipmentHeaders ==
    /\ inv_ai \in {Header(n, d, a) : n \in InvHeaderValues, d \in InvHeaderValues,
                                      a \in InvHeaderValues}
    /\ ead_ai \in {Header(n, d, a) : n \in EadHeaderValues, d \in EadHeaderValues,
                                      a \in EadHeaderValues}
    /\ invoice_text = CompleteInvoiceText(Some(<<"1", "0">>))
    /\ ead_text = << <<"1", "0">> >>
    /\ inv_lines = <<FullInv>>
    /\ ead_lines = <<FullEad>>

InitShipmentTexts ==
    /\ inv_ai = ConsistentHeader
    /\ ead_ai = ConsistentHeader
    /\ \E c \in InvColliCaptures :
          invoice_text \in {CompleteInvoiceText(c),
                            [EmptyInvoiceText EXCEPT !.colli = c],
                            [CompleteInvoiceText(c) EXCEPT !.gross_kg = Some(0),
                                                           !.pallets = None]}
    /\ ead_text \in SeqsUpTo(EadColliCaptures, MaxColliEntries)
    /\ inv_lines = <<FullInv>>
    /\ ead_lines = <<FullEad>>

InitShipmentLines ==
    /\ inv_ai = ConsistentHeader
    /\ ead_ai = ConsistentHeader
    /\ \E c \in LineColliCaptures : invoice_text = CompleteInvoiceText(c)
    /\ ead_text = <<>>
    /\ inv_lines \in SeqsUpTo(ShipInvLineSet, MaxInvLines)
    /\ ead_lines \in SeqsUpTo(ShipEadLineSet, MaxEadLines)

InitShipment ==
    /\ InitShipmentHeaders \/ InitShipmentTexts \/ InitShipmentLines
    /\ pc = "shipment"
    /\ shipment_issues = <<>>
    /\ run_issues = <<>>
    /\ run = 1
    /\ first = None
    /\ i = 1
    /\ j = 1
    /\ best = None
    /\ best_score = InitialBestScore
    /\ score = None
    /\ used = {}
    /\ matches = <<>>
    /\ issues = <<>>
    /\ k = 1
    /\ arg = None
    /\ ret = None
    /\ NoUploads

NextShipment == ValidateShipment

SpecShipment == InitShipment /\ [][NextShipment]_vars

-----------------------------------------------------------------------------
(* Matching one invoice line against one EAD line, over a product of field  *)
(* values that reaches every branch and every boundary of the score.        *)

PairInvLines ==
    {InvLine(desc, Some(CN2204), abv, cases, bpc, bl, bt, None) :
        desc \in {"", "GRAPPA", "VINO ROSSO"},
        abv \in {None, Some(12500), Some(12750)},
        cases \in {None, Some(10), Some(12)},
        bpc \in {None, Some(6)},
        bl \in {None, Some(750)},
        bt \in {None, Some(60)}}

PairEadLines ==
    {EadLine(1, cn, abv, liters, None, None, desig, None, cases) :
        cn \in {Some(CN2204), Some(CN2205)},
        abv \in {None, Some(12500), Some(13000), Some(14000)},
        liters \in {None, Some(45000), Some(45500), Some(47000), Some(47500)},
        desig \in {"", "VINO ROSSO DOC"},
        cases \in {None, Some(10)}}

InitPair ==
    /\ inv_lines \in {<<l>> : l \in PairInvLines}
    /\ ead_lines \in {<<l>> : l \in PairEadLines}
    /\ pc = "match"
    /\ i = 1
    /\ j = 1
    /\ best = None
    /\ best_score = InitialBestScore
    /\ score = None
    /\ used = {}
    /\ matches = <<>>
    /\ issues = <<>>
    /\ k = 1
    /\ arg = None
    /\ ret = None
    /\ FixedDocuments
    /\ NoUploads

NextPair ==
    \/ MatchSkipCn
    \/ MatchScore
    \/ MatchRecord
    \/ MatchReturn

SpecPair == InitPair /\ [][NextPair]_vars

-----------------------------------------------------------------------------
(* The claims about match_invoice_to_ead *)

Indices(seq) == 1..Len(seq)

\* the pairs recorded so far whose EAD side is not absent
PairedIndices == {a \in Indices(matches) : matches[a].ead # None}

\* a code compared "as a trimmed string": from its first to its last
\* non-blank character
ClaimTrim(s) ==
    LET solid == {n \in Indices(s) : s[n] # " "} IN
    IF solid = {} THEN <<>>
    ELSE SubSeq(s, CHOOSE n \in solid : \A m \in solid : n <= m,
                   CHOOSE n \in solid : \A m \in solid : n >= m)

ClaimCarriesCode(line) == line.cn_code # None /\ Val(line.cn_code) # <<>>

ClaimCodesDiffer(inv, ead) ==
    /\ ClaimCarriesCode(inv)
    /\ ClaimCarriesCode(ead)
    /\ ClaimTrim(Val(inv.cn_code)) # ClaimTrim(Val(ead.cn_code))

\* the inner loop over the EAD lines has ended for invoice line i and the
\* pair has not been recorded yet
InnerLoopEnded == pc = "match" /\ i <= Len(inv_lines) /\ j > Len(ead_lines)

\* the not-yet-used EAD lines that pass the hard filter for invoice line i
ClaimEligible ==
    {b \in Indices(ead_lines) :
        /\ ead_lines[b].progressivo \notin used
        /\ ~ClaimCodesDiffer(inv_lines[i], ead_lines[b])}

\* C1: no progressivo is the EAD side of two different pairs, and after every
\* iteration of the matching loop the set of used EAD lines is no larger than
\* the EAD list and as large as the number of pairs with an EAD side.
C1_ProgressivoUsedOnce ==
    /\ \A a, b \in PairedIndices :
          a # b => Val(matches[a].ead).progressivo # Val(matches[b].ead).progressivo
    /\ Cardinality(used) <= Len(ead_lines)
    /\ Cardinality(used) = Cardinality(PairedIndices)

\* C1 witness: two invoice lines are paired with the two EAD lines, the second
\* one after skipping the line the first one used
C1_Witness ==
    /\ Len(matches) = 2
    /\ Len(ead_lines) = 2
    /\ matches[1].ead = Some(ead_lines[1])
    /\ matches[2].ead = Some(ead_lines[2])
    /\ Cardinality(used) = 2

\* C2: no recorded pair has two commodity codes that differ as trimmed strings
C2_NoPairAcrossCodes ==
    \A a \in PairedIndices : ~ClaimCodesDiffer(matches[a].inv, Val(matches[a].ead))

\* C2 witness: an invoice line was recorded although an EAD line with another
\* code, never used, would have scored higher than what was recorded
C2_Witness ==
    \E a \in Indices(matches), b \in Indices(ead_lines) :
        /\ ClaimCodesDiffer(matches[a].inv, ead_lines[b])
        /\ pair_score(matches[a].inv, ead_lines[b]) > matches[a].score
        /\ pair_score(matches[a].inv, ead_lines[b]) >= 60000
        /\ ead_lines[b].progressivo \notin used
        /\ pc = "validate"

\* C3 (as claimed): when the inner loop ends, the invoice line is about to be
\* paired with an absent EAD side and the score -1 only if no unused EAD line
\* passes the hard filter; otherwise an eligible line is paired with its score.
C3_AbsentOnlyIfNoneEligible ==
    InnerLoopEnded =>
        /\ (best = None) <=> (ClaimEligible = {})
        /\ best = None => best_score = -1000
        /\ best # None =>
              \E b \in ClaimEligible :
                  /\ best = Some(ead_lines[b])
                  /\ best_score = pair_score(inv_lines[i], ead_lines[b])

\* C5 (as claimed): the line selected is the first of the eligible lines that
\* reach the maximum score
C5_FirstMaximumSelected ==
    (InnerLoopEnded /\ ClaimEligible # {}) =>
        LET top == CHOOSE b \in ClaimEligible :
                       \A c \in ClaimEligible :
                           \/ pair_score(inv_lines[i], ead_lines[b])
                                 > pair_score(inv_lines[i], ead_lines[c])
                           \/ /\ pair_score(inv_lines[i], ead_lines[b])
                                    = pair_score(inv_lines[i], ead_lines[c])
                              /\ b <= c
        IN  best = Some(ead_lines[top])

\* the four components of the score as the claim words them (thousandths)
ClaimLitersPoints(inv, ead) ==
    IF liters_from_invoice(inv) = None \/ ead.ead_liters = None THEN 0
    ELSE LET d == Abs(Val(liters_from_invoice(inv)) - Val(ead.ead_liters)) IN
         CASE d <= 500 -> 80000
           [] d > 500 /\ d <= 2000 -> 50000
           [] d > 2000 -> -50000

ClaimCasesPoints(inv, ead) ==
    IF inv.cases = None \/ ead.cases = None THEN 0
    ELSE IF Val(inv.cases) = Val(ead.cases) THEN 40000 ELSE -30000

ClaimAbvPoints(inv, ead) ==
    IF inv.abv_percent = None \/ ead.abv_percent = None THEN 0
    ELSE LET d == Abs(Val(inv.abv_percent) - Val(ead.abv_percent)) IN
         CASE d <= 300 -> 25000
           [] d > 300 /\ d <= 700 -> 10000
           [] d > 700 -> -25000

ClaimNamePoints(inv, ead) ==
    IF inv.description \in {"", " "} \/ ead.designation \in {"", " "} THEN 0
    ELSE fuzz_token_set_ratio(inv.description, ead.designation) \div 2

\* C4: the score computed for a candidate is the sum of the four components,
\* and lies between -105 and 195
C4_ScoreIsSumOfComponents ==
    score # None =>
        /\ Val(score) = ClaimLitersPoints(inv_lines[i], ead_lines[j - 1])
                        + ClaimCasesPoints(inv_lines[i], ead_lines[j - 1])
                        + ClaimAbvPoints(inv_lines[i], ead_lines[j - 1])
                        + ClaimNamePoints(inv_lines[i], ead_lines[j - 1])
        /\ Val(score) >= -105000
        /\ Val(score) <= 195000

\* C4 witness: a candidate was scored whose liters differ by more than 2.0,
\* whose cases differ, whose ABV is within 0.7 and whose texts are compared
C4_Witness ==
    /\ score # None
    /\ ClaimLitersPoints(inv_lines[i], ead_lines[j - 1]) = -50000
    /\ ClaimCasesPoints(inv_lines[i], ead_lines[j - 1]) = -30000
    /\ ClaimAbvPoints(inv_lines[i], ead_lines[j - 1]) = 10000
    /\ ClaimNamePoints(inv_lines[i], ead_lines[j - 1]) = 5000

ScenarioRun == inv_lines = <<ScenarioInv>> /\ ead_lines = <<ScenarioEad>>

\* C6 (as claimed): the scenario pair is matched with a score of at least 185
C6_ScenarioScoreAtLeast185 ==
    (ScenarioRun /\ pc # "match") =>
        /\ Len(matches) = 1
        /\ matches[1].inv = ScenarioInv
        /\ matches[1].ead = Some(ScenarioEad)
        /\ matches[1].score >= 185000

\* C6 (amended): the scenario pair is matched with a score of exactly 145
\* (80 liters + 40 cases + 25 ABV, no description on either side)
C6_ScenarioScoreIs145 ==
    (ScenarioRun /\ pc # "match") =>
        matches = <<[inv |-> ScenarioInv, ead |-> Some(ScenarioEad), score |-> 145000]>>

\* C6 witness: the scenario has been matched
C6_Witness == ScenarioRun /\ pc # "match" /\ Len(matches) = 1

-----------------------------------------------------------------------------
(* The calculators called on their own *)

MaxWholeInput == 100

\* bottle sizes as they are written: whole numbers (liters, centiliters or
\* milliliters), decimal liters, milliliters of usual bottles and of a 20 l keg
BottleInputs ==
    {w * 1000 : w \in 0..MaxWholeInput}
        \cup {187, 200, 250, 375, 500, 750, 1500, 2250}
        \cup {187000, 200000, 250000, 330000, 375000, 500000, 700000, 750000,
              1000000, 1500000, 20000000}

\* invoice lines whose liters are computed: bottle_liters 0.75, 10.0 and 20.0
LitersInputs ==
    {InvLine("VINO", None, None, cases, bpc, bl, bt, None) :
        cases \in {None, Some(0), Some(10)},
        bpc \in {None, Some(6)},
        bl \in {None, Some(750), Some(10000), Some(20000)},
        bt \in {None, Some(60), Some(5000), Some(5001)}}

\* truthiness of an Optional text held whole: None and "" are falsy
TruthyText(x) == x # None /\ Val(x) # ""

\* safe_float(x) of an Optional[float]: float(None) raises and gives None, a
\* float is returned as it is
safe_float(x) == IF x = None THEN None ELSE Some(Val(x))

\* an EAD row as the extraction returns it (PackingRow): only the fields
\* normalize_ead_rows reads
PackingRow(prog, desc, desig, denom, cn, abv, liters, gross, net, cases) ==
    [progressivo |-> prog, description |-> desc, designation |-> desig,
     denominazione_origine |-> denom, cn_code |-> cn, abv_percent |-> abv,
     ead_liters |-> liters, ead_gross_kg |-> gross, ead_net_kg |-> net,
     cases |-> cases]

\* normalize_ead_rows(ai_ead)["lines"]: the progressivo, or the row's 1-based
\* position when it has none; `designation or description or ""` with its
\* white space collapsed and trimmed
normalize_ead_rows(rows) ==
    [idx \in 1..Len(rows) |->
        LET r == rows[idx]
            prog == IF r.progressivo # None THEN Val(r.progressivo) ELSE idx
            designation == IF TruthyText(r.designation) THEN Val(r.designation)
                           ELSE IF TruthyText(r.description) THEN Val(r.description)
                           ELSE ""
        IN  EadLine(prog, r.cn_code, safe_float(r.abv_percent),
                    safe_float(r.ead_liters), safe_float(r.ead_gross_kg),
                    safe_float(r.ead_net_kg), strip_text(designation),
                    IF TruthyText(r.denominazione_origine)
                    THEN Some(strip_text(Val(r.denominazione_origine)))
                    ELSE None,
                    r.cases)]

\* extracted EAD rows: with progressivo 1 or 2 or none, named by their
\* designation, by their description, by both or by neither
PackingRowSet ==
    {PackingRow(prog, desc, desig, Some("DOC SICILIA"), Some(CN2204), Some(12500),
                Some(45000), Some(70000), Some(45500), None) :
        prog \in {None, Some(1), Some(2)},
        desc \in {None, Some("VINO ROSSO")},
        desig \in {Some(""), Some("VINO ROSSO DOC")}}

MaxIssues == 3

\* issues for status_from_issues: a NO_MATCH, a FAIL that is not a NO_MATCH,
\* and a WARN
StatusIssueSet ==
    {no_match_issue([inv |-> OffInv, ead |-> None, score |-> InitialBestScore]),
     Issue("QUANTITY_INTEGRITY_CHECK", "TOTAL_COLLI_MISMATCH", "FAIL",
           [invoice_total_colli |-> Some(50), ead_packaging_colli_sum |-> Some(48)]),
     Issue("PRODUCT_IDENTITY_CHECK", "MISSING_LOT", "WARN", [invoice_desc |-> "VINO"])}

\* faulty variant: the status follows the severities
status_from_severities(list) ==
    IF list = <<>> THEN "OK"
    ELSE IF \E n \in DOMAIN list : list[n].severity = "FAIL" THEN "FAIL"
    ELSE "WARN"

\* status_from_issues(issues) of src/app.py
status_from_issues(list) ==
    IF list = <<>> THEN "OK"
    ELSE IF \E n \in DOMAIN list : get(list[n], "type") = "NO_MATCH" THEN "FAIL"
    ELSE "WARN"

InitCalc ==
    /\ \/ pc = "call_normalize" /\ arg \in {None} \cup {Some(v) : v \in BottleInputs}
       \/ pc = "call_liters" /\ arg \in LitersInputs
       \/ pc = "call_status" /\ arg \in SeqsUpTo(StatusIssueSet, MaxIssues)
       \/ pc = "call_normalize_ead" /\ arg \in SeqsUpTo(PackingRowSet, MaxEadLines)
    /\ ret = None
    /\ FixedDocuments
    /\ inv_lines = <<>>
    /\ ead_lines = <<>>
    /\ i = 1
    /\ j = 1
    /\ best = None
    /\ best_score = InitialBestScore
    /\ score = None
    /\ used = {}
    /\ matches = <<>>
    /\ issues = <<>>
    /\ k = 1
    /\ NoUploads

CallNormalize ==
    /\ pc = "call_normalize"
    /\ ret' = normalize_bottle_liters(arg)
    /\ pc' = "ret_normalize"
    /\ UNCHANGED <<inv_lines, ead_lines, i, j, best, best_score, score, used,
                   matches, issues, k, arg>>
    /\ UNCHANGED doc_vars
    /\ UNCHANGED app_vars

\* liters_from_invoice's `bl = normalize_bottle_liters(inv_line.get(
\* "bottle_liters"))` applied to the value normalize_invoice_rows stored
CallRenormalize ==
    /\ pc = "ret_normalize"
    /\ arg' = ret
    /\ ret' = normalize_bottle_liters(ret)
    /\ pc' = "ret_renormalize"
    /\ UNCHANGED <<inv_lines, ead_lines, i, j, best, best_score, score, used,
                   matches, issues, k>>
    /\ UNCHANGED doc_vars
    /\ UNCHANGED app_vars

CallLiters ==
    /\ pc = "call_liters"
    /\ ret' = liters_from_invoice(arg)
    /\ pc' = "ret_liters"
    /\ UNCHANGED <<inv_lines, ead_lines, i, j, best, best_score, score, used,
                   matches, issues, k, arg>>
    /\ UNCHANGED doc_vars
    /\ UNCHANGED app_vars

\* `status = status_from_issues(issues)`
CallStatus ==
    /\ pc = "call_status"
    /\ ret' = status_from_issues(arg)
    /\ pc' = "ret_status"
    /\ UNCHANGED <<inv_lines, ead_lines, i, j, best, best_score, score, used,
                   matches, issues, k, arg>>
    /\ UNCHANGED doc_vars
    /\ UNCHANGED app_vars

\* `ead = normalize_ead_rows(ead_ai)`
CallNormalizeEad ==
    /\ pc = "call_normalize_ead"
    /\ ret' = normalize_ead_rows(arg)
    /\ pc' = "ret_normalize_ead"
    /\ UNCHANGED <<inv_lines, ead_lines, i, j, best, best_score, score, used,
                   matches, issues, k, arg>>
    /\ UNCHANGED doc_vars
    /\ UNCHANGED app_vars

NextCalc ==
    \/ CallNormalize
    \/ CallRenormalize
    \/ CallLiters
    \/ CallStatus
    \/ CallNormalizeEad

SpecCalc == InitCalc /\ [][NextCalc]_vars

-----------------------------------------------------------------------------
(* src/app.py: the bulk run.  A file name is one character.  What the       *)
(* extraction stages, which call an external service, and the engine make   *)
(* of a pair of readable files is an input of the model: the issue list of  *)
(* the pair is carried by the invoice file.                                 *)

MaxFiles == 2

\* str.lower() on the names of the model
lower(c) == IF c = "B" THEN "b" ELSE c

\* the place of a lower-cased name in the order of strings
NameRank(c) == CHOOSE n \in 1..3 : <<"a", "b", "c">>[n] = c

\* `key=lambda f: f.name.lower()`
sort_key(f) == NameRank(lower(f.name))

\* f put into a sorted list, behind the files whose key is not greater
RECURSIVE insert_sorted(_, _)
insert_sorted(f, list) ==
    IF list = <<>> THEN <<f>>
    ELSE IF sort_key(Head(list)) <= sort_key(f)
         THEN <<Head(list)>> \o insert_sorted(f, Tail(list))
         ELSE <<f>> \o list

\* sorted(files, key=...): files of equal key keep their order
RECURSIVE sorted(_)
sorted(files) ==
    IF files = <<>> THEN <<>>
    ELSE insert_sorted(files[Len(files)], sorted(SubSeq(files, 1, Len(files) - 1)))

\* an uploaded file: its name, whether pdfplumber can open it, and (on an
\* invoice) the issue list the stages compute for its pair
UploadedFile(name, readable, pair_issues) ==
    [name |-> name, readable |-> readable, issues |-> pair_issues]

InvoiceFileSet ==
    {UploadedFile("a", TRUE, <<>>),
     UploadedFile("B", TRUE, <<Issue("PRODUCT_IDENTITY_CHECK", "MISSING_LOT", "WARN",
                                      [invoice_desc |-> "VINO"])>>),
     UploadedFile("c", TRUE,
                  <<no_match_issue([inv |-> OffInv, ead |-> None,
                                    score |-> InitialBestScore])>>),
     UploadedFile("B", FALSE, <<>>),
     UploadedFile("c", FALSE, <<>>)}

EadFileSet ==
    {UploadedFile("a", TRUE, <<>>), UploadedFile("B", TRUE, <<>>),
     UploadedFile("a", FALSE, <<>>)}

\* the parameters of build_customs_excel, none of which has a default
build_customs_excel_params == {"matches", "template_path", "inv_ai", "ead_text"}

\* the arguments run_one_job passes to build_customs_excel
build_customs_excel_args == {"matches", "template_path", "inv_ai"}

\* what a call of run_one_job does: it raises, or it returns
Raised(text) == [raised |-> TRUE, error |-> text]
Returned(issue_list, excel) ==
    [raised |-> FALSE, issues |-> issue_list, excel_bytes |-> excel]

\* run_one_job: extract_text raises on a file pdfplumber cannot open; the
\* call of build_customs_excel raises TypeError when a required parameter
\* is not passed
run_one_job(inv_file, ead_file) ==
    IF ~inv_file.readable \/ ~ead_file.readable
    THEN Raised("No /Root object! - Is this really a PDF?")
    ELSE IF build_customs_excel_params \ build_customs_excel_args # {}
         THEN Raised("build_customs_excel() missing 1 required positional argument")
         ELSE Returned(inv_file.issues, "xlsx")

JobResult(job_id, invoice_name, ead_name, status, issues_count, excel_bytes, issues_bytes) ==
    [job_id |-> job_id, invoice_name |-> invoice_name, ead_name |-> ead_name,
     status |-> status, issues_count |-> issues_count,
     excel_bytes |-> excel_bytes, issues_bytes |-> issues_bytes]

\* `n = min(len(inv_sorted), len(ead_sorted))`
job_count == IF Len(invoices) <= Len(eads) THEN Len(invoices) ELSE Len(eads)

\* results left by an earlier run
StaleResults ==
    {<<>>, <<JobResult(1, "c", "a", "OK", 0, Some("xlsx"), <<>>),
            JobResult(2, "c", "a", "OK", 0, Some("xlsx"), <<>>),
            JobResult(3, "c", "a", "OK", 0, Some("xlsx"), <<>>)>>}

\* the button is enabled once both uploads are non-empty
InitApp ==
    /\ invoices \in SeqsUpTo(InvoiceFileSet, MaxFiles) \ {<<>>}
    /\ eads \in SeqsUpTo(EadFileSet, MaxFiles) \ {<<>>}
    /\ results \in StaleResults
    /\ job_i = 0
    /\ pc = "app_idle"
    /\ FixedDocuments
    /\ inv_lines = <<>>
    /\ ead_lines = <<>>
    /\ i = 1
    /\ j = 1
    /\ best = None
    /\ best_score = InitialBestScore
    /\ score = None
    /\ used = {}
    /\ matches = <<>>
    /\ issues = <<>>
    /\ k = 1
    /\ arg = None
    /\ ret = None

\* `if run_btn: st.session_state.results = []`, the sorting, and the entry
\* of the loop
RunClicked ==
    /\ pc = "app_idle"
    /\ results' = <<>>
    /\ job_i' = 0
    /\ pc' = "app_loop"
    /\ UNCHANGED <<inv_lines, ead_lines, i, j, best, best_score, score, used,
                   matches, issues, k, arg, ret, invoices, eads>>
    /\ UNCHANGED doc_vars

\* one iteration of `for i in range(n)`: the try and its except
RunJob ==
    /\ pc = "app_loop" /\ job_i < job_count
    /\ LET inv_file == sorted(invoices)[job_i + 1]
           ead_file == sorted(eads)[job_i + 1]
           job_id == job_i + 1
           r == run_one_job(inv_file, ead_file)
       IN  results' = Append(results,
               IF r.raised
               THEN JobResult(job_id, inv_file.name, ead_file.name, "FAIL", 1,
                              None, r.error)
               ELSE JobResult(job_id, inv_file.name, ead_file.name,
                              status_from_issues(r.issues), Len(r.issues),
                              Some(r.excel_bytes), r.issues))
    /\ job_i' = job_i + 1
    /\ UNCHANGED <<inv_lines, ead_lines, pc, i, j, best, best_score, score, used,
                   matches, issues, k, arg, ret, invoices, eads>>
    /\ UNCHANGED doc_vars

\* the loop ends
RunFinished ==
    /\ pc = "app_loop" /\ job_i >= job_count
    /\ pc' = "app_done"
    /\ UNCHANGED <<inv_lines, ead_lines, i, j, best, best_score, score, used,
                   matches, issues, k, arg, ret>>
    /\ UNCHANGED doc_vars
    /\ UNCHANGED app_vars

NextApp ==
    \/ RunClicked
    \/ RunJob
    \/ RunFinished

SpecApp == InitApp /\ [][NextApp]_vars

\* C7 (as claimed): 750 gives 0.75, 75 gives 0.75, 0.75 gives 0.75
C7_NormalizeExamples ==
    pc = "ret_normalize" =>
        /\ arg = Some(750000) => ret = Some(750)
        /\ arg = Some(75000) => ret = Some(750)
        /\ arg = Some(750) => ret = Some(750)

\* C8 (as claimed): 75, 70 and 50 are divided by 100, any other value of at
\* least 10 is divided by 1000, every other value is returned unchanged
C8_NormalizeCases ==
    (pc = "ret_normalize" /\ arg # None) =>
        LET v == Val(arg) IN
        ret = Some(IF v \in {75000, 70000, 50000} THEN v \div 100
                   ELSE IF v >= 10000 THEN v \div 1000
                   ELSE v)

\* C9 (as claimed): cases x bottles_per_case x bottle_liters when all three
\* are present; else bottles_total x bottle_liters when both are present and
\* bottles_total <= 5000; else absent
C9_LitersFormula ==
    pc = "ret_liters" =>
        ret = IF arg.cases # None /\ arg.bottles_per_case # None
                    /\ arg.bottle_liters # None
              THEN Some(Val(arg.cases) * Val(arg.bottles_per_case)
                            * Val(arg.bottle_liters))
              ELSE IF arg.bottles_total # None /\ arg.bottle_liters # None
                        /\ Val(arg.bottles_total) <= 5000
                   THEN Some(Val(arg.bottles_total) * Val(arg.bottle_liters))
                   ELSE None

-----------------------------------------------------------------------------
(* The claims about validate_lines *)

\* C10: validating a pair whose EAD side is absent appends exactly one issue,
\* PRODUCT_IDENTITY_CHECK / NO_MATCH with severity FAIL, and moves on to the
\* next pair
C10_AbsentPairYieldsOnlyNoMatch ==
    [][(pc = "validate" /\ k <= Len(matches) /\ matches[k].ead = None) =>
          /\ Len(issues') = Len(issues) + 1
          /\ SubSeq(issues', 1, Len(issues)) = issues
          /\ issues'[Len(issues')].check_class = "PRODUCT_IDENTITY_CHECK"
          /\ issues'[Len(issues')].type = "NO_MATCH"
          /\ issues'[Len(issues')].severity = "FAIL"
          /\ k' = k + 1
          /\ pc' = "validate"]_vars

\* C10 witness: a pair with an absent EAD side, whose invoice line lacks its
\* lot and its cases, has been validated and a later pair is being validated
C10_Witness ==
    /\ pc = "validate"
    /\ k = 2
    /\ Len(matches) = 2
    /\ matches[1].ead = None
    /\ matches[1].inv = SparseInv
    /\ Len(issues) = 1

\* what C11 calls a pair with every optional field present on both sides
ClaimAllPresent(inv, ead) ==
    /\ strip_text(inv.description) # ""
    /\ inv.cn_code # None /\ inv.abv_percent # None
    /\ inv.cases # None /\ inv.bottles_per_case # None
    /\ inv.bottle_liters # None /\ inv.bottles_total # None /\ inv.lot # None
    /\ ead.cn_code # None /\ ead.abv_percent # None /\ ead.ead_liters # None
    /\ ead.ead_gross_kg # None /\ ead.ead_net_kg # None
    /\ strip_text(ead.designation) # ""
    /\ ead.denominazione_origine # None /\ ead.cases # None

\* consistent apart from the weights: equal trimmed codes, equal strengths,
\* invoice liters (cases x bottles per case x liters per bottle) equal to the
\* EAD liters, equal cases, a plausible bottle size, net weight within
\* max(2, 2 %) of the liters, and names that fully agree
ClaimConsistentButGross(inv, ead) ==
    /\ ClaimTrim(Val(inv.cn_code)) = ClaimTrim(Val(ead.cn_code))
    /\ Val(inv.abv_percent) = Val(ead.abv_percent)
    /\ Val(inv.bottle_liters) >= 50 /\ Val(inv.bottle_liters) <= 5000
    /\ Val(inv.cases) * Val(inv.bottles_per_case) * Val(inv.bottle_liters)
           = Val(ead.ead_liters)
    /\ Val(inv.cases) = Val(ead.cases)
    /\ 50 * Abs(Val(ead.ead_net_kg) - Val(ead.ead_liters))
           <= Max(100000, Val(ead.ead_liters))
    /\ token_set_ratio(inv.description, ead.designation) >= name_warn_threshold

\* what C11 calls consistent: all of the above, and gross above net
ClaimConsistent(inv, ead) ==
    /\ ClaimConsistentButGross(inv, ead)
    /\ Val(ead.ead_gross_kg) > Val(ead.ead_net_kg)

\* the pair being validated is matched, complete and consistent
ClaimValidatingConsistentPair ==
    /\ pc = "validate" /\ k <= Len(matches)
    /\ matches[k].ead # None
    /\ ClaimAllPresent(matches[k].inv, Val(matches[k].ead))
    /\ ClaimConsistent(matches[k].inv, Val(matches[k].ead))

\* the pair being validated is the scenario pair
ClaimValidatingScenarioPair ==
    /\ pc = "validate" /\ k <= Len(matches)
    /\ matches[k].inv = ScenarioInv
    /\ matches[k].ead = Some(ScenarioEad)

\* C11 (as claimed): validating a matched pair that is complete and
\* consistent adds no issue, and validating the scenario pair adds no issue
C11_ConsistentAndScenarioPairsYieldNoIssue ==
    [][(ClaimValidatingConsistentPair \/ ClaimValidatingScenarioPair) =>
          issues' = issues]_vars

\* C11 (amended): validating a matched pair that is complete and consistent
\* adds no issue; validating the scenario pair, which carries no description,
\* no lot and no origin text, adds exactly three issues, all of severity WARN:
\* MISSING_INVOICE_FIELD (description), MISSING_LOT and
\* MISSING_DENOMINAZIONE_ORIGINE, in that order
C11_ConsistentPairYieldsNoIssue ==
    [][/\ ClaimValidatingConsistentPair => issues' = issues
       /\ ClaimValidatingScenarioPair =>
             /\ Len(issues') = Len(issues) + 3
             /\ SubSeq(issues', 1, Len(issues)) = issues
             /\ LET added == SubSeq(issues', Len(issues) + 1, Len(issues'))
                IN  /\ \A n \in 1..3 : added[n].severity = "WARN"
                    /\ added[1].type = "MISSING_INVOICE_FIELD"
                    /\ added[1].ctx.missing_field = "description"
                    /\ added[2].type = "MISSING_LOT"
                    /\ added[3].type = "MISSING_DENOMINAZIONE_ORIGINE"]_vars

\* C11 witness: the complete line whose code is written with blanks was
\* matched to the complete EAD line, the pair has been validated and the
\* issue list is still empty
C11_Witness ==
    /\ pc = "done"
    /\ matches = <<[inv |-> FullInv, ead |-> Some(FullEad), score |-> 195000]>>
    /\ ClaimAllPresent(FullInv, FullEad)
    /\ ClaimConsistent(FullInv, FullEad)
    /\ issues = <<>>

-----------------------------------------------------------------------------
(* The claims about a whole reconciliation *)

\* sum of a present numeric field over a list of lines
RECURSIVE ClaimFieldSum(_, _)
ClaimFieldSum(lines, field) ==
    IF lines = <<>> THEN 0
    ELSE Val(Head(lines)[field]) + ClaimFieldSum(Tail(lines), field)

\* the pairs whose EAD line has gross <= net
ClaimGrossBelowNetPairs ==
    {n \in DOMAIN matches :
        Val(Val(matches[n].ead).ead_gross_kg) <= Val(Val(matches[n].ead).ead_net_kg)}

\* what C12 calls an otherwise consistent shipment: the headers agree, the
\* invoice text has every compliance field, the declared packages equal the
\* sum of the EAD package counts and the invoice cases, all cartons hold the
\* same number of bottles, every line is paired, and every pair is complete
\* and consistent apart from gross and net
ClaimOtherwiseConsistent ==
    /\ \A f \in {"invoice_number", "invoice_date", "arc"} :
          /\ inv_ai[f] # None /\ ead_ai[f] # None
          /\ ClaimTrim(Val(inv_ai[f])) # <<>>
          /\ ClaimTrim(Val(inv_ai[f])) = ClaimTrim(Val(ead_ai[f]))
    /\ \A f \in {"supplier_vat", "supplier_eori", "supplier_rex", "consignee_eori",
                  "incoterm", "colli", "gross_kg", "net_kg", "pallets"} :
          invoice_text[f] # None
    /\ Val(invoice_text.gross_kg) > 0 /\ Val(invoice_text.net_kg) > 0
    /\ Val(invoice_text.pallets) > 0
    /\ Len(inv_lines) > 0
    /\ Len(matches) = Len(inv_lines) /\ Len(ead_lines) = Len(inv_lines)
    /\ \A n \in DOMAIN matches :
          /\ matches[n].ead # None
          /\ ClaimAllPresent(matches[n].inv, Val(matches[n].ead))
          /\ ClaimConsistentButGross(matches[n].inv, Val(matches[n].ead))
          /\ Val(matches[n].inv.bottles_per_case) = Val(inv_lines[1].bottles_per_case)
    /\ parse_int_loose(invoice_text.colli) = Some(ClaimFieldSum(inv_lines, "cases"))
    /\ extract_ead_packaging_colli_sum(ead_text) = parse_int_loose(invoice_text.colli)

\* C12 (as claimed): in an otherwise consistent shipment with one EAD line
\* whose gross is not above its net, the issue list of the reconciliation
\* holds exactly one issue, of severity WARN
C12_GrossBelowNetYieldsOneWarn ==
    (pc = "aggregated" /\ ClaimOtherwiseConsistent
        /\ Cardinality(ClaimGrossBelowNetPairs) = 1) =>
        /\ Len(run_issues) = 1
        /\ run_issues[1].severity = "WARN"

\* C12 (amended): in such a shipment the line validator adds exactly one
\* issue, WEIGHT_GROSS_LE_NET with severity WARN, and the shipment validator
\* adds TOTAL_GROSS_LE_NET with severity WARN exactly when the gross weights
\* of the EAD together are not above its net weights together, as in a
\* one-line shipment; the list holds nothing else and no FAIL
C12_GrossBelowNetYieldsOnlyWarns ==
    (pc = "aggregated" /\ ClaimOtherwiseConsistent
        /\ Cardinality(ClaimGrossBelowNetPairs) = 1) =>
        /\ \A n \in DOMAIN run_issues : run_issues[n].severity = "WARN"
        /\ Len(issues) = 1
        /\ issues[1].type = "WEIGHT_GROSS_LE_NET"
        /\ IF ClaimFieldSum(ead_lines, "ead_gross_kg")
                <= ClaimFieldSum(ead_lines, "ead_net_kg")
           THEN /\ Len(run_issues) = 2
                /\ run_issues[1].type = "TOTAL_GROSS_LE_NET"
                /\ run_issues[2] = issues[1]
           ELSE run_issues = issues

\* C12 witness: the one-line shipment whose EAD line has gross 10 and net 12
\* has been reconciled, with two issues
C12_Witness ==
    /\ pc = "aggregated"
    /\ ClaimOtherwiseConsistent
    /\ inv_lines = <<LitreInv>>
    /\ ead_lines = <<GrossBelowNetEad>>
    /\ ClaimGrossBelowNetPairs = {1}
    /\ Len(run_issues) = 2

\* a two-line shipment with one such EAD line has been reconciled, with one
\* issue
C12_WitnessTwoLines ==
    /\ pc = "aggregated"
    /\ ClaimOtherwiseConsistent
    /\ Len(inv_lines) = 2
    /\ Cardinality(ClaimGrossBelowNetPairs) = 1
    /\ Len(run_issues) = 1

-----------------------------------------------------------------------------
(* The claims about validate_shipment; pc = "call_match" is the state in    *)
(* which it has returned                                                    *)

\* the positions of the issues of a type in a list
ClaimIssuesOfType(list, issue_type) ==
    {n \in DOMAIN list : list[n].type = issue_type}

\* the invoice's declared total of packages, None when not extractable
ClaimInvoiceColli == extract_invoice_totals(invoice_text).invoice_total_colli

\* the sum of the EAD's package counts, None when not extractable
ClaimEadColli == extract_ead_packaging_colli_sum(ead_text)

\* C13: validate_shipment reports exactly one TOTAL_COLLI_MISMATCH, of
\* severity FAIL and recording both totals, when the invoice total and the
\* EAD sum of package counts are both extractable and differ, and none when
\* they are equal or either is not extractable
C13_ColliMismatchIffBothDiffer ==
    pc = "call_match" =>
        LET found == ClaimIssuesOfType(shipment_issues, "TOTAL_COLLI_MISMATCH")
        IN  IF /\ ClaimInvoiceColli # None
               /\ ClaimEadColli # None
               /\ Val(ClaimInvoiceColli) # Val(ClaimEadColli)
            THEN /\ Cardinality(found) = 1
                 /\ \A n \in found :
                       /\ shipment_issues[n].severity = "FAIL"
                       /\ shipment_issues[n].ctx.invoice_total_colli = ClaimInvoiceColli
                       /\ shipment_issues[n].ctx.ead_packaging_colli_sum = ClaimEadColli
            ELSE found = {}

\* C13 witness: the invoice declares 50 packages, the EAD counts 48, and the
\* mismatch has been reported with both totals
C13_Witness ==
    /\ pc = "call_match"
    /\ invoice_text.colli = Some(<<"5", "0">>)
    /\ ead_text = << <<"4", "8">> >>
    /\ \E n \in DOMAIN shipment_issues :
          /\ shipment_issues[n].type = "TOTAL_COLLI_MISMATCH"
          /\ shipment_issues[n].ctx.invoice_total_colli = Some(50)
          /\ shipment_issues[n].ctx.ead_packaging_colli_sum = Some(48)

\* the sum of canonical liters over the invoice lines that have them
ClaimInvoiceLitersTotal ==
    sum_or_none(present([n \in DOMAIN inv_lines |-> liters_from_invoice(inv_lines[n])]))

\* the sum of the ead_liters field over the EAD lines that have it
ClaimEadLitersTotal ==
    sum_or_none(present([n \in DOMAIN ead_lines |-> ead_lines[n].ead_liters]))

\* C14: whenever the invoice's total of canonical liters and the EAD's total
\* of ead_liters both exist and differ by more than max(1.0, 0.5 % of the EAD
\* total), validate_shipment reports TOTAL_LITERS_MISMATCH with severity FAIL
C14_TotalLitersMismatchReported ==
    (/\ pc = "call_match"
     /\ ClaimInvoiceLitersTotal # None
     /\ ClaimEadLitersTotal # None
     /\ 200 * Abs(Val(ClaimInvoiceLitersTotal) - Val(ClaimEadLitersTotal))
            > Max(200000, Val(ClaimEadLitersTotal))) =>
        \E n \in DOMAIN shipment_issues :
            /\ shipment_issues[n].type = "TOTAL_LITERS_MISMATCH"
            /\ shipment_issues[n].severity = "FAIL"

\* C15: when no EAD line carries a cases value, validate_shipment reports no
\* TOTAL_CASES_MISMATCH
C15_NoCasesMismatchWithoutEadCases ==
    (/\ pc = "call_match"
     /\ \A n \in DOMAIN ead_lines : ead_lines[n].cases = None) =>
        ClaimIssuesOfType(shipment_issues, "TOTAL_CASES_MISMATCH") = {}

\* C16: with a positive declared total of packages, validate_shipment reports
\* PACKAGING_UNIT_MISMATCH (FAIL) when the bottles per package deviate from
\* the most frequent bottles_per_case by more than 0.25, and
\* PACKAGING_UNIT_UNCHECKED (WARN) when no invoice line has a
\* bottles_per_case
C16_PackagingCheckedOrReported ==
    (/\ pc = "call_match"
     /\ ClaimInvoiceColli # None
     /\ Val(ClaimInvoiceColli) > 0
     /\ inv_lines # <<>>) =>
        LET bpcs == bottles_per_case_list(inv_lines)
            total == total_bottles_of(inv_lines)
        IN  IF bpcs = <<>>
            THEN \E n \in DOMAIN shipment_issues :
                    /\ shipment_issues[n].type = "PACKAGING_UNIT_UNCHECKED"
                    /\ shipment_issues[n].severity = "WARN"
            ELSE (total > 0
                  /\ 4 * Abs(total - most_common(bpcs) * Val(ClaimInvoiceColli))
                         > Val(ClaimInvoiceColli)) =>
                    \E n \in DOMAIN shipment_issues :
                        /\ shipment_issues[n].type = "PACKAGING_UNIT_MISMATCH"
                        /\ shipment_issues[n].severity = "FAIL"

\* a header value is carried: it is there and not empty
ClaimCarried(x) == x # None /\ Val(x) # <<>>

\* what C17 says of one header field with its three issue types
ClaimHeaderField(field, mismatch, severity, missing_inv, missing_ead) ==
    LET a == inv_ai[field]
        b == ead_ai[field]
        found == ClaimIssuesOfType(shipment_issues, mismatch)
    IN  /\ IF ClaimCarried(a) /\ ClaimCarried(b) /\ ClaimTrim(Val(a)) # ClaimTrim(Val(b))
           THEN /\ Cardinality(found) = 1
                /\ \A n \in found : shipment_issues[n].severity = severity
           ELSE found = {}
        /\ ~ClaimCarried(a) =>
              \E n \in ClaimIssuesOfType(shipment_issues, missing_inv) :
                  shipment_issues[n].severity = "FAIL"
        /\ ~ClaimCarried(b) =>
              \E n \in ClaimIssuesOfType(shipment_issues, missing_ead) :
                  shipment_issues[n].severity = "FAIL"

\* C17: ARC_MISMATCH and INVOICE_NUMBER_MISMATCH are reported, with severity
\* FAIL, exactly when both documents carry the value and the trimmed values
\* differ; a value missing on one side yields the MISSING_* issue of that
\* side with severity FAIL and no mismatch for the field; a date mismatch is
\* reported under the same condition with severity WARN
C17_HeaderMismatchIffBothDiffer ==
    pc = "call_match" =>
        /\ ClaimHeaderField("arc", "ARC_MISMATCH", "FAIL",
                            "MISSING_ARC_IN_INVOICE", "MISSING_ARC_IN_EAD")
        /\ ClaimHeaderField("invoice_number", "INVOICE_NUMBER_MISMATCH", "FAIL",
                            "MISSING_INVOICE_NUMBER", "MISSING_EAD_INVOICE_NUMBER")
        /\ LET found == ClaimIssuesOfType(shipment_issues, "INVOICE_DATE_MISMATCH")
           IN  IF /\ ClaimCarried(inv_ai.invoice_date)
                  /\ ClaimCarried(ead_ai.invoice_date)
                  /\ ClaimTrim(Val(inv_ai.invoice_date))
                         # ClaimTrim(Val(ead_ai.invoice_date))
               THEN /\ Cardinality(found) = 1
                    /\ \A n \in found : shipment_issues[n].severity = "WARN"
               ELSE found = {}

\* C17 witness: the ARC differs only by blanks and is not reported, the
\* invoice numbers differ and are reported, the EAD has no date and no date
\* mismatch is reported
C17_Witness ==
    /\ pc = "call_match"
    /\ inv_ai = Header(Some(RefB), Some(RefB), Some(RefAPadded))
    /\ ead_ai = Header(Some(RefA), None, Some(RefA))
    /\ ClaimIssuesOfType(shipment_issues, "ARC_MISMATCH") = {}
    /\ Cardinality(ClaimIssuesOfType(shipment_issues, "INVOICE_NUMBER_MISMATCH")) = 1
    /\ ClaimIssuesOfType(shipment_issues, "INVOICE_DATE_MISMATCH") = {}

-----------------------------------------------------------------------------
(* The claim about the status of a job *)

\* C18: the status of a job is OK exactly when its issue list is empty, FAIL
\* exactly when the list holds at least one NO_MATCH, and WARN in every other
\* case, issues of severity FAIL that are no NO_MATCH included
C18_StatusFromIssues ==
    pc = "ret_status" =>
        LET no_match == \E n \in DOMAIN arg : arg[n].type = "NO_MATCH"
        IN  /\ ret \in {"OK", "FAIL", "WARN"}
            /\ ret = "OK" <=> arg = <<>>
            /\ ret = "FAIL" <=> no_match
            /\ ret = "WARN" <=> (arg # <<>> /\ ~no_match)

\* C18 witness: a list with an issue of severity FAIL and no NO_MATCH has been
\* given the status WARN
C18_Witness ==
    /\ pc = "ret_status"
    /\ \E n \in DOMAIN arg : arg[n].severity = "FAIL"
    /\ \A n \in DOMAIN arg : arg[n].type # "NO_MATCH"
    /\ ret = "WARN"

-----------------------------------------------------------------------------
(* The claims about the issue list of a run and about repeated runs *)

\* the issues of the pairs, pair after pair
RECURSIVE ClaimLineIssues(_)
ClaimLineIssues(pairs) ==
    IF pairs = <<>> THEN <<>>
    ELSE (IF Head(pairs).ead = None
          THEN <<no_match_issue(Head(pairs))>>
          ELSE present_pair_issues(Head(pairs).inv, Val(Head(pairs).ead)))
         \o ClaimLineIssues(Tail(pairs))

\* C19: the issue list of a run is the shipment issues followed by the line
\* issues; the line issues are those of the pairs in the order of the pairs;
\* while the pairs are validated the list only grows at its end; nothing is
\* removed, reordered or merged
C19_ShipmentThenLineIssuesInOrder ==
    /\ [](pc \in {"done", "aggregated"} => issues = ClaimLineIssues(matches))
    /\ [](pc = "aggregated" =>
            /\ Len(run_issues) = Len(shipment_issues) + Len(issues)
            /\ SubSeq(run_issues, 1, Len(shipment_issues)) = shipment_issues
            /\ SubSeq(run_issues, Len(shipment_issues) + 1, Len(run_issues)) = issues
            /\ shipment_issues = validate_shipment(inv_ai, ead_ai, inv_lines, ead_lines,
                                                   invoice_text, ead_text))
    /\ [][(pc = "validate" /\ pc' = "validate") =>
            /\ Len(issues') >= Len(issues)
            /\ SubSeq(issues', 1, Len(issues)) = issues]_vars

\* C19 witness: a run with shipment issues and two unmatched invoice lines
\* that are alike has ended; its list holds the same NO_MATCH twice, after the
\* shipment issues
C19_Witness ==
    /\ pc = "aggregated"
    /\ shipment_issues # <<>>
    /\ Len(issues) = 2
    /\ issues[1] = issues[2]
    /\ issues[1].type = "NO_MATCH"
    /\ Len(run_issues) = Len(shipment_issues) + 2
    /\ run_issues[Len(run_issues)] = run_issues[Len(run_issues) - 1]

\* C20: a second run on the same lines, headers and texts returns the same
\* matches and the same issue list as the first
C20_SecondRunEqualsFirst ==
    (pc = "aggregated" /\ run = 2) =>
        first = Some([matches |-> matches, issues |-> run_issues])

\* C20 witness: the second run has ended; as in the first, both invoice lines
\* are paired, with EAD lines the first run had marked as used
C20_Witness ==
    /\ pc = "aggregated"
    /\ run = 2
    /\ Len(matches) = 2
    /\ \A n \in DOMAIN matches : matches[n].ead # None
    /\ Cardinality(used) = 2
    /\ run_issues # <<>>
    /\ first # None

-----------------------------------------------------------------------------
(* Further claims about validate_lines *)

\* the issues validate_lines has added for pair n, recomputed
ClaimPairIssues(n) ==
    IF matches[n].ead = None THEN <<no_match_issue(matches[n])>>
    ELSE present_pair_issues(matches[n].inv, Val(matches[n].ead))

\* C22: when validate_lines has returned, every matched pair whose invoice
\* description and EAD designation are both non-empty and less than fully
\* similar has a LOW_NAME_SIMILARITY issue of severity WARN in the list
C22_LowNameSimilarityReported ==
    pc = "done" =>
        \A n \in DOMAIN matches :
            (/\ matches[n].ead # None
             /\ strip_text(matches[n].inv.description) # ""
             /\ strip_text(Val(matches[n].ead).designation) # ""
             /\ token_set_ratio(matches[n].inv.description,
                                Val(matches[n].ead).designation) < name_warn_threshold)
            => \E m \in DOMAIN issues :
                  /\ issues[m].type = "LOW_NAME_SIMILARITY"
                  /\ issues[m].severity = "WARN"
                  /\ issues[m].ctx.invoice_desc = strip_text(matches[n].inv.description)

\* the issues of the given type and severity FAIL among those a step adds
ClaimAddedFails(before, after, issue_type) ==
    {n \in (Len(before) + 1)..Len(after) :
        after[n].type = issue_type /\ after[n].severity = "FAIL"}

\* C25: validating a matched pair adds exactly one LITERS_MISMATCH of severity
\* FAIL when the invoice line's canonical liters and the EAD liters are both
\* present and differ at all, and none otherwise; it adds exactly one
\* MISSING_EAD_LITERS of severity FAIL when the EAD liters are absent, and
\* none otherwise
C25_LitersMismatchIffBothDiffer ==
    [][(pc = "validate" /\ k <= Len(matches) /\ matches[k].ead # None) =>
          LET inv_liters == liters_from_invoice(matches[k].inv)
              ead_liters == Val(matches[k].ead).ead_liters
          IN  /\ ClaimIssuesOfType(issues', "LITERS_MISMATCH")
                     \ ClaimIssuesOfType(issues, "LITERS_MISMATCH")
                   = ClaimAddedFails(issues, issues', "LITERS_MISMATCH")
              /\ Cardinality(ClaimAddedFails(issues, issues', "LITERS_MISMATCH"))
                   = IF /\ inv_liters # None /\ ead_liters # None
                        /\ Val(inv_liters) # Val(ead_liters)
                     THEN 1 ELSE 0
              /\ Cardinality(ClaimAddedFails(issues, issues', "MISSING_EAD_LITERS"))
                   = IF ead_liters = None THEN 1 ELSE 0]_vars

\* C25 witness: a line of 45 liters paired with an EAD line of 46 liters and
\* a line paired with an EAD line without liters have both been validated,
\* giving one LITERS_MISMATCH and one MISSING_EAD_LITERS
C25_Witness ==
    /\ pc = "done"
    /\ Len(matches) = 2
    /\ matches[1].inv = SparseInv /\ matches[1].ead = Some(OtherCnEad)
    /\ matches[2].ead = Some(DupEad)
    /\ Cardinality(ClaimIssuesOfType(issues, "LITERS_MISMATCH")) = 1
    /\ Cardinality(ClaimIssuesOfType(issues, "MISSING_EAD_LITERS")) = 1

\* C28: no issue that validate_lines adds for the pairs match_invoice_to_ead
\* returned is a CN_CODE_MISMATCH
C28_NoCnMismatchOnMatcherOutput ==
    ClaimIssuesOfType(issues, "CN_CODE_MISMATCH") = {}

\* C28 witness: an invoice line whose code differs from the first EAD line's
\* and agrees, once trimmed, with the second's has been paired with the
\* second, and the pair has been validated
C28_Witness ==
    /\ pc = "done"
    /\ inv_lines = <<FullInv>>
    /\ ead_lines = <<OtherCnEad, FullEad>>
    /\ matches[1].ead = Some(FullEad)
    /\ FullInv.cn_code # FullEad.cn_code

-----------------------------------------------------------------------------
(* Further claims about main *)

\* C24: no step of validate_shipment or of validate_lines changes the invoice
\* lines, the EAD lines or the list of matched pairs, scores included
C24_ValidatorsLeaveInputsUnchanged ==
    [][(pc = "shipment" \/ pc = "validate") =>
          (inv_lines' = inv_lines /\ ead_lines' = ead_lines
               /\ matches' = matches)]_vars

\* C24 witness: both validators have run and both have reported something,
\* on two matched pairs
C24_Witness ==
    /\ pc = "aggregated"
    /\ Len(matches) = 2
    /\ matches[1].ead # None /\ matches[2].ead # None
    /\ matches[1].score > 0
    /\ Len(shipment_issues) > 0
    /\ Len(issues) > 0

-----------------------------------------------------------------------------
(* Further claims about match_invoice_to_ead *)

\* the best candidate for one invoice line among eads[jj..], given the best
\* so far, as one pass over the list
RECURSIVE ClaimBestFrom(_, _, _, _, _, _)
ClaimBestFrom(inv, ead_list, used_set, jj, b, bs) ==
    IF jj > Len(ead_list) THEN [ead |-> b, score |-> bs]
    ELSE IF is_used(ead_list[jj], used_set) \/ cn_filtered(inv, ead_list[jj])
         THEN ClaimBestFrom(inv, ead_list, used_set, jj + 1, b, bs)
         ELSE LET s == pair_score(inv, ead_list[jj]) IN
              IF beats(s, bs)
              THEN ClaimBestFrom(inv, ead_list, used_set, jj + 1,
                                 Some(ead_list[jj]), s)
              ELSE ClaimBestFrom(inv, ead_list, used_set, jj + 1, b, bs)

\* the pairs for invs[n..] appended to acc, one line after the other
RECURSIVE ClaimMatchFrom(_, _, _, _, _)
ClaimMatchFrom(invs, ead_list, n, used_set, acc) ==
    IF n > Len(invs) THEN acc
    ELSE LET r == ClaimBestFrom(invs[n], ead_list, used_set, 1, None,
                                InitialBestScore)
         IN  ClaimMatchFrom(invs, ead_list, n + 1,
                            IF r.ead # None
                            THEN used_set \cup {Val(r.ead).progressivo}
                            ELSE used_set,
                            Append(acc, [inv |-> invs[n], ead |-> r.ead,
                                         score |-> r.score]))

\* the result of matching the given invoice lines alone against the EAD list
ClaimMatchResult(invs, ead_list) == ClaimMatchFrom(invs, ead_list, 1, {}, <<>>)

\* C27: when match_invoice_to_ead returns, the list has one pair per invoice
\* line, in the lines' order, and for every k its first k pairs are the result
\* of matching the first k
\* invoice lines alone against the same EAD list; while matching, the list
\* only grows at its end, by the pair of the next invoice line, and a
\* progressivo once marked used stays marked
C27_GreedyPrefixStable ==
    /\ []((pc = "validate" /\ k = 1) =>
            /\ Len(matches) = Len(inv_lines)
            /\ \A n \in DOMAIN matches : matches[n].inv = inv_lines[n]
            /\ \A n \in 0..Len(inv_lines) :
                   SubSeq(matches, 1, n)
                       = ClaimMatchResult(SubSeq(inv_lines, 1, n), ead_lines))
    /\ [][(pc = "match") =>
            (/\ used \subseteq used'
             /\ \/ matches' = matches
                \/ /\ Len(matches') = Len(matches) + 1
                   /\ SubSeq(matches', 1, Len(matches)) = matches
                   /\ matches'[Len(matches')].inv = inv_lines[Len(matches')])]_vars

\* C27 witness: two invoice lines have been matched against two EAD lines,
\* each with a line of its own, the second after the first was marked used
C27_Witness ==
    /\ pc = "validate"
    /\ Len(matches) = 2
    /\ matches[1].ead # None /\ matches[2].ead # None
    /\ inv_lines[1] = inv_lines[2]
    /\ Cardinality(used) = 2

-----------------------------------------------------------------------------
(* Further claims about the calculators *)

\* C29 (as claimed): normalizing a value that normalize_bottle_liters
\* returned gives that value again, so the volume liters_from_invoice
\* multiplies by is the stored bottle_liters
C29_NormalizeIdempotent ==
    pc = "ret_renormalize" => ret = arg

\* C23 (as claimed): the lines normalize_ead_rows returns carry positive
\* progressivi that are pairwise distinct, also when some rows have their
\* position as fallback and others an explicit progressivo
C23_ProgressiviPositiveDistinct ==
    pc = "ret_normalize_ead" =>
        \A m, n \in DOMAIN ret :
            /\ ret[n].progressivo > 0
            /\ m # n => ret[m].progressivo # ret[n].progressivo

-----------------------------------------------------------------------------
(* Error handling *)

\* C21 (as claimed): whatever the lines carry, cases that are no number
\* included, no validator raises: the run is never ended by an exception
C21_NoFault ==
    pc # "raised"

\* the pair of files of job n: the n-th invoice and the n-th EAD by
\* lower-cased name
ClaimInvoiceOfJob(n) == sorted(invoices)[n]
ClaimEadOfJob(n) == sorted(eads)[n]

\* C26 (as claimed): when the bulk run ends there is exactly one JobResult
\* per pair, in order; a pair with an unreadable file is recorded FAIL with
\* issues_count 1, no Excel bytes and the error text; a pair of well-formed
\* files is recorded with the status derived from its issue list and with
\* its Excel bytes
C26_OneResultPerJob ==
    pc = "app_done" =>
        /\ Len(results) = job_count
        /\ \A n \in DOMAIN results :
              /\ results[n].job_id = n
              /\ results[n].invoice_name = ClaimInvoiceOfJob(n).name
              /\ results[n].ead_name = ClaimEadOfJob(n).name
              /\ IF ClaimInvoiceOfJob(n).readable /\ ClaimEadOfJob(n).readable
                 THEN /\ results[n].status
                           = status_from_issues(ClaimInvoiceOfJob(n).issues)
                      /\ results[n].excel_bytes # None
                 ELSE /\ results[n].status = "FAIL"
                      /\ results[n].issues_count = 1
                      /\ results[n].excel_bytes = None
                      /\ results[n].issues_bytes
                           = "No /Root object! - Is this really a PDF?"

====
